---- MODULE Spec2Model ----
(***************************************************************************)
(* Statement-parsing engine of the budget app (src/parsers.py).            *)
(*                                                                         *)
(* Text is a sequence of one-character strings.  The regular expressions   *)
(* of the parsers are data (sequences of elements) run by a backtracking   *)
(* matcher that tries alternatives in the priority order of Python's re    *)
(* module, so greedy/lazy quantifiers, optional groups and '$' behave as   *)
(* they do in the source.  Amounts are integers in cents.                  *)
(***************************************************************************)
EXTENDS Integers, Sequences, FiniteSets, TLC

\* ------------------------------------------------------------------------
\* Characters and character classes
\* ------------------------------------------------------------------------
UpperSeq == <<"A", "B", "C", "D", "E", "F", "G", "H", "I", "J", "K", "L", "M",
              "N", "O", "P", "Q", "R", "S", "T", "U", "V", "W", "X", "Y", "Z">>

LowerSeq == <<"a", "b", "c", "d", "e", "f", "g", "h", "i", "j", "k", "l", "m",
              "n", "o", "p", "q", "r", "s", "t", "u", "v", "w", "x", "y", "z">>

Upper == {UpperSeq[i] : i \in DOMAIN UpperSeq}

Lower == {LowerSeq[i] : i \in DOMAIN LowerSeq}

DigitSeq == <<"0", "1", "2", "3", "4", "5", "6", "7", "8", "9">>

Digit == {DigitSeq[i] : i \in DOMAIN DigitSeq}

\* int() of one digit
DigitVal(c) == (CHOOSE i \in DOMAIN DigitSeq : DigitSeq[i] = c) - 1

\* int() of a string of digits
RECURSIVE IntOf(_)
IntOf(s) == IF s = <<>> THEN 0 ELSE 10 * IntOf(SubSeq(s, 1, Len(s) - 1)) + DigitVal(s[Len(s)])

\* \s of the re module (the whitespace the model's texts use)
Space == {" ", "\t", "\n"}

Punct == {"$", ",", ".", "/", "-", ":", "#", "*", "&", "(", ")", "_", "+"}

Alphabet == Upper \cup Lower \cup Digit \cup Space \cup Punct

\* '.' without re.DOTALL: any character but the newline
AnyChar == Alphabet \ {"\n"}

\* \w
Word == Upper \cup Lower \cup Digit \cup {"_"}

\* [A-Z0-9]
UpperDigit == Upper \cup Digit

\* [\d,]
DigitComma == Digit \cup {","}

\* str.lower() on one character
LowerTable ==
    ("A" :> "a") @@ ("B" :> "b") @@ ("C" :> "c") @@ ("D" :> "d") @@ ("E" :> "e") @@
    ("F" :> "f") @@ ("G" :> "g") @@ ("H" :> "h") @@ ("I" :> "i") @@ ("J" :> "j") @@
    ("K" :> "k") @@ ("L" :> "l") @@ ("M" :> "m") @@ ("N" :> "n") @@ ("O" :> "o") @@
    ("P" :> "p") @@ ("Q" :> "q") @@ ("R" :> "r") @@ ("S" :> "s") @@ ("T" :> "t") @@
    ("U" :> "u") @@ ("V" :> "v") @@ ("W" :> "w") @@ ("X" :> "x") @@ ("Y" :> "y") @@
    ("Z" :> "z")

LowerChar(c) == IF c \in Upper THEN LowerTable[c] ELSE c

\* str.upper() on one character
UpperTable ==
    ("a" :> "A") @@ ("b" :> "B") @@ ("c" :> "C") @@ ("d" :> "D") @@ ("e" :> "E") @@
    ("f" :> "F") @@ ("g" :> "G") @@ ("h" :> "H") @@ ("i" :> "I") @@ ("j" :> "J") @@
    ("k" :> "K") @@ ("l" :> "L") @@ ("m" :> "M") @@ ("n" :> "N") @@ ("o" :> "O") @@
    ("p" :> "P") @@ ("q" :> "Q") @@ ("r" :> "R") @@ ("s" :> "S") @@ ("t" :> "T") @@
    ("u" :> "U") @@ ("v" :> "V") @@ ("w" :> "W") @@ ("x" :> "X") @@ ("y" :> "Y") @@
    ("z" :> "Z")

UpperChar(c) == IF c \in Lower THEN UpperTable[c] ELSE c

\* str.lower()
ToLower(s) == SubSeq([i \in DOMAIN s |-> LowerChar(s[i])], 1, Len(s))

\* 'kw in s' : kw occurs in s as a contiguous substring
Contains(s, kw) ==
    \/ kw = <<>>
    \/ \E i \in 1..(Len(s) - Len(kw) + 1) :
          s[i] = kw[1] /\ SubSeq(s, i, i + Len(kw) - 1) = kw

RECURSIVE LStrip(_)
LStrip(s) == IF s # <<>> /\ Head(s) \in Space THEN LStrip(Tail(s)) ELSE s

RECURSIVE RStrip(_)
RStrip(s) ==
    IF s # <<>> /\ s[Len(s)] \in Space THEN RStrip(SubSeq(s, 1, Len(s) - 1)) ELSE s

\* str.strip()
Strip(s) == RStrip(LStrip(s))

\* ------------------------------------------------------------------------
\* Regular expressions (re module)
\* ------------------------------------------------------------------------
\* An expression is a sequence of elements.
\* cs{lo,hi} greedy; hi = -1 is 'no upper limit'
Rep(cs, lo, hi) == [t |-> "cls", cs |-> cs, lo |-> lo, hi |-> hi, lazy |-> FALSE]

\* cs+? (lazy)
PlusLazy(cs) == [t |-> "cls", cs |-> cs, lo |-> 1, hi |-> -1, lazy |-> TRUE]

One(cs) == Rep(cs, 1, 1)

Plus(cs) == Rep(cs, 1, -1)

Star(cs) == Rep(cs, 0, -1)

\* (?: body )?
Opt(body) == [t |-> "opt", body |-> body]

\* (?: a1 | a2 | ... )
Alt(alts) == [t |-> "alt", alts |-> alts]

\* '$' under re.MULTILINE
Eol == [t |-> "eol"]

\* '(' and ')' of capturing group g
Open(g) == [t |-> "open", g |-> g]

Close(g) == [t |-> "close", g |-> g]

\* a literal string; ic = TRUE under re.IGNORECASE
Lit(s, ic) == <<[t |-> "lit", s |-> s, ic |-> ic]>>

MaxGroups == 4

NoSpan == <<0, 0>>

NoCaps == [st |-> [g \in 1..MaxGroups |-> 0], sp |-> [g \in 1..MaxGroups |-> NoSpan]]

RECURSIVE Flatten(_)
Flatten(ss) ==
    IF ss = <<>> THEN <<>>
    ELSE IF Len(ss) = 1 THEN ss[1]
    ELSE LET h == Len(ss) \div 2
         IN  Flatten(SubSeq(ss, 1, h)) \o Flatten(SubSeq(ss, h + 1, Len(ss)))

\* how many characters from pos on are in cs, at most hi of them
RunLen(text, pos, cs, hi) ==
    LET left == Len(text) - pos + 1
        lim == IF hi < 0 \/ hi > left THEN left ELSE hi
    IN  IF \A j \in 0..(lim - 1) : text[pos + j] \in cs THEN lim
        ELSE CHOOSE j \in 0..(lim - 1) :
                 /\ text[pos + j] \notin cs
                 /\ \A i \in 0..(j - 1) : text[pos + i] \in cs

\* The matcher keeps the alternatives of a backtracking search as a sequence
\* of threads [pos, cap] in the priority order of the re module (a greedy
\* quantifier tries its longest run first, a lazy one its shortest, an
\* optional group its body before its absence, an alternation its branches
\* left to right).  The first thread that survives the whole expression is
\* the match re returns.
RECURSIVE RunFrom(_, _, _, _)

\* the threads one thread becomes on one element
StepOne(th, el, text) ==
    CASE el.t = "cls" ->
           LET n == RunLen(text, th.pos, el.cs, el.hi)
           IN  IF n < el.lo THEN <<>>
               ELSE [k \in 1..(n - el.lo + 1) |->
                        [pos |-> th.pos + (IF el.lazy THEN el.lo + k - 1 ELSE n - k + 1),
                         cap |-> th.cap]]
      [] el.t = "lit" ->
           LET w == SubSeq(text, th.pos, th.pos + Len(el.s) - 1)
           IN  IF th.pos + Len(el.s) - 1 <= Len(text)
                  /\ (IF el.ic THEN ToLower(w) = ToLower(el.s) ELSE w = el.s)
               THEN <<[pos |-> th.pos + Len(el.s), cap |-> th.cap]>>
               ELSE <<>>
      [] el.t = "opt" -> RunFrom(el.body, 1, <<th>>, text) \o <<th>>
      [] el.t = "alt" ->
           Flatten([a \in DOMAIN el.alts |-> RunFrom(el.alts[a], 1, <<th>>, text)])
      [] el.t = "eol" ->
           IF th.pos = Len(text) + 1 THEN <<th>>
           ELSE IF text[th.pos] = "\n" THEN <<th>>
           ELSE <<>>
      [] el.t = "open" -> <<[th EXCEPT !.cap.st[el.g] = th.pos]>>
      [] el.t = "close" -> <<[th EXCEPT !.cap.sp[el.g] = <<th.cap.st[el.g], th.pos>>]>>

Advance(threads, el, text) ==
    Flatten([k \in DOMAIN threads |-> StepOne(threads[k], el, text)])

\* the threads left after the elements i.. of pat
RunFrom(pat, i, threads, text) ==
    IF threads = <<>> THEN <<>>
    ELSE IF i > Len(pat) THEN threads
    ELSE RunFrom(pat, i + 1, Advance(threads, pat[i], text), text)

\* pattern.match(text, pos): <<>> when pat does not match at pos, otherwise
\* <<[pos |-> the position after the match, cap |-> the groups]>>
FirstThread(threads) == IF threads = <<>> THEN <<>> ELSE <<threads[1]>>

MatchFrom(pat, text, pos, cap) ==
    FirstThread(RunFrom(pat, 1, <<[pos |-> pos, cap |-> cap]>>, text))

\* the characters a match of pat can begin with; Alphabet when pat can
\* match without consuming a character first
RECURSIVE FirstChars(_)
FirstChars(pat) ==
    IF pat = <<>> THEN Alphabet
    ELSE LET el == Head(pat)
         IN  CASE el.t = "cls" -> IF el.lo >= 1 THEN el.cs ELSE Alphabet
               [] el.t = "lit" ->
                    IF el.s = <<>> THEN Alphabet
                    ELSE IF el.ic THEN {LowerChar(el.s[1]), UpperChar(el.s[1])}
                    ELSE {el.s[1]}
               [] el.t = "alt" -> UNION {FirstChars(el.alts[a]) : a \in DOMAIN el.alts}
               [] el.t \in {"open", "close"} -> FirstChars(Tail(pat))
               [] OTHER -> Alphabet

\* a match object [s, e, cap] for the thread r of a match begun at p: <<>>
\* when there is no match, <<m>> for the match m
MatchObject(p, r) ==
    IF r = <<>> THEN <<>> ELSE <<[s |-> p, e |-> r[1].pos, cap |-> r[1].cap]>>

\* pattern.match(text, p)
MatchAt(pat, text, p) == MatchObject(p, MatchFrom(pat, text, p, NoCaps))

\* the positions of text whose character is in first; every position, the
\* end of the text included, when a match need not consume a character
Candidates(text, first) ==
    IF first = Alphabet THEN 1..(Len(text) + 1)
    ELSE {p \in 1..Len(text) : text[p] \in first}

MatchesAmong(pat, text, positions) ==
    {m \in {MatchAt(pat, text, p) : p \in positions} : m # <<>>}

\* the matches of pat in text, one for each position where pat matches
Matches(pat, text) == MatchesAmong(pat, text, Candidates(text, FirstChars(pat)))

\* the match that starts first
Leftmost(ms) == CHOOSE m \in ms : \A k \in ms : m[1].s <= k[1].s

LeftmostOrNone(ms) == IF ms = {} THEN <<>> ELSE Leftmost(ms)

\* re.search: the leftmost match, <<>> when there is none
Search(pat, text) == LeftmostOrNone(Matches(pat, text))

\* re.finditer: the non-overlapping matches among ms, left to right, from
\* position from on
RECURSIVE FindIterFrom(_, _)
FindIterFrom(ms, from) ==
    LET next == {m \in ms : m[1].s >= from}
    IN  IF next = {} THEN <<>>
        ELSE LET m == Leftmost(next)[1]
             IN  <<m>> \o FindIterFrom(ms, IF m.e > m.s THEN m.e ELSE m.e + 1)

FindIter(pat, text) == FindIterFrom(Matches(pat, text), 1)

\* the match of a pattern at the start of s when it ends where s ends
WholeOf(s, m) == IF m # <<>> /\ m[1].e = Len(s) + 1 THEN m ELSE <<>>

MatchWhole(pat, s) == WholeOf(s, MatchAt(pat, s, 1))

\* match.group(0)
Group0(text, m) == SubSeq(text, m.s, m.e - 1)

\* match.group(g) is None
GroupUnset(m, g) == m.cap.sp[g] = NoSpan

\* match.group(g)
Group(text, m, g) == SubSeq(text, m.cap.sp[g][1], m.cap.sp[g][2] - 1)

\* ------------------------------------------------------------------------
\* StatementParser._parse_amount
\* ------------------------------------------------------------------------
\* re.sub(r'[$,\s]', '', amount_str)
RECURSIVE RemoveChars(_, _)
RemoveChars(s, cs) ==
    IF s = <<>> THEN <<>>
    ELSE IF Head(s) \in cs THEN RemoveChars(Tail(s), cs)
    ELSE <<Head(s)>> \o RemoveChars(Tail(s), cs)

\* float(): <<>> stands for ValueError, <<c>> for the value c in cents.  The
\* decimal numerals [+-]digits[.digits] and [+-].digits are read; digits after
\* the second decimal place are dropped (no text of the model has any).
\* Every other string is a ValueError.
FloatPattern ==
    <<Open(1), Rep({"-", "+"}, 0, 1), Close(1),
      Alt(<< <<Open(2), Plus(Digit), Close(2),
               Opt(<<One({"."}), Open(3), Star(Digit), Close(3)>>)>>,
             <<One({"."}), Open(3), Plus(Digit), Close(3)>> >>)>>

FloatOf(s, m) ==
    IF m = <<>> THEN <<>>
    ELSE LET whole == IF GroupUnset(m[1], 2) THEN 0 ELSE IntOf(Group(s, m[1], 2))
             frac == IF GroupUnset(m[1], 3) THEN <<>> ELSE Group(s, m[1], 3)
             mag == 100 * whole + IntOf(SubSeq(frac \o <<"0", "0">>, 1, 2))
         IN  <<IF Group(s, m[1], 1) = <<"-">> THEN -mag ELSE mag>>

ParseFloat(s) == FloatOf(s, MatchWhole(FloatPattern, s))

StartsWith(s, p) == Len(s) >= Len(p) /\ SubSeq(s, 1, Len(p)) = p

EndsWith(s, p) == Len(s) >= Len(p) /\ SubSeq(s, Len(s) - Len(p) + 1, Len(s)) = p

\* 'if cleaned.startswith('(') and cleaned.endswith(')')'
Parenthesised(cleaned) ==
    IF StartsWith(cleaned, <<"(">>) /\ EndsWith(cleaned, <<")">>)
    THEN <<"-">> \o SubSeq(cleaned, 2, Len(cleaned) - 1)
    ELSE cleaned

\* 'if cleaned.endswith('CR')'
CreditSuffixed(cleaned) ==
    IF EndsWith(cleaned, <<"C", "R">>)
    THEN <<"-">> \o SubSeq(cleaned, 1, Len(cleaned) - 2)
    ELSE cleaned

\* 'try: return float(cleaned) except ValueError: return 0.0'
FloatOrZero(f) == IF f = <<>> THEN 0 ELSE f[1]

\* the amount in cents; 0 when the cleaned text is not a number
_parse_amount(amount_str) ==
    FloatOrZero(ParseFloat(CreditSuffixed(Parenthesised(
        RemoveChars(amount_str, {"$", ","} \cup Space)))))

\* ------------------------------------------------------------------------
\* StatementParser._parse_date (datetime.strptime)
\* ------------------------------------------------------------------------
MonthNames ==
    << <<"j", "a", "n", "u", "a", "r", "y">>,
       <<"f", "e", "b", "r", "u", "a", "r", "y">>,
       <<"m", "a", "r", "c", "h">>,
       <<"a", "p", "r", "i", "l">>,
       <<"m", "a", "y">>,
       <<"j", "u", "n", "e">>,
       <<"j", "u", "l", "y">>,
       <<"a", "u", "g", "u", "s", "t">>,
       <<"s", "e", "p", "t", "e", "m", "b", "e", "r">>,
       <<"o", "c", "t", "o", "b", "e", "r">>,
       <<"n", "o", "v", "e", "m", "b", "e", "r">>,
       <<"d", "e", "c", "e", "m", "b", "e", "r">> >>

\* the %b names are the first three letters of the %B names
MonthAbbrs == [i \in DOMAIN MonthNames |-> SubSeq(MonthNames[i], 1, 3)]

NonZeroDigit == Digit \ {"0"}

\* the regular expression strptime compiles for one element of a format; the
\* groups are 1 = month number, 2 = day, 3 = year, 4 = month name
FormatElement(tok) ==
    CASE tok = "%m" ->
           <<Open(1), Alt(<< <<One({"1"}), One({"0", "1", "2"})>>,
                             <<One({"0"}), One(NonZeroDigit)>>,
                             <<One(NonZeroDigit)>> >>), Close(1)>>
      [] tok = "%d" ->
           <<Open(2), Alt(<< <<One({"3"}), One({"0", "1"})>>,
                             <<One({"1", "2"}), One(Digit)>>,
                             <<One({"0"}), One(NonZeroDigit)>>,
                             <<One(NonZeroDigit)>>,
                             <<One({" "}), One(NonZeroDigit)>> >>), Close(2)>>
      [] tok = "%Y" -> <<Open(3), Rep(Digit, 4, 4), Close(3)>>
      [] tok = "%y" -> <<Open(3), Rep(Digit, 2, 2), Close(3)>>
      [] tok = "%b" ->
           <<Open(4), Alt([i \in DOMAIN MonthAbbrs |-> Lit(MonthAbbrs[i], TRUE)]), Close(4)>>
      [] tok = "%B" ->
           <<Open(4), Alt([i \in DOMAIN MonthNames |-> Lit(MonthNames[i], TRUE)]), Close(4)>>
      [] tok = " " -> <<Plus(Space)>>
      [] OTHER -> <<One({tok})>>

RECURSIVE FormatRegex(_)
FormatRegex(fmt) ==
    IF fmt = <<>> THEN <<>> ELSE FormatElement(Head(fmt)) \o FormatRegex(Tail(fmt))

IsLeap(y) == (y % 4 = 0) /\ ((y % 100 # 0) \/ (y % 400 = 0))

DaysInMonth(y, m) ==
    IF m = 2 THEN (IF IsLeap(y) THEN 29 ELSE 28)
    ELSE IF m \in {4, 6, 9, 11} THEN 30 ELSE 31

HasYear(fmt) == \E i \in DOMAIN fmt : fmt[i] \in {"%Y", "%y"}

\* the date strptime builds from the match m of the format's expression
DateOf(s, fmt, m) ==
    IF m = <<>> THEN <<>>
    ELSE LET yy == IntOf(Group(s, m[1], 3))
             year == IF ~HasYear(fmt) THEN 1900
                     ELSE IF \E i \in DOMAIN fmt : fmt[i] = "%Y" THEN yy
                     ELSE IF yy <= 68 THEN 2000 + yy ELSE 1900 + yy
             name == ToLower(Group(s, m[1], 4))
             month == IF ~GroupUnset(m[1], 1) THEN IntOf(Group(s, m[1], 1))
                      ELSE IF ~GroupUnset(m[1], 4)
                      THEN CHOOSE i \in DOMAIN MonthNames :
                               SubSeq(MonthNames[i], 1, 3) = SubSeq(name, 1, 3)
                      ELSE 1
             day == IF GroupUnset(m[1], 2) THEN 1
                    ELSE IntOf(RemoveChars(Group(s, m[1], 2), {" "}))
         IN  IF year < 1 \/ day > DaysInMonth(year, month) THEN <<>>
             ELSE <<[y |-> year, m |-> month, d |-> day]>>

\* datetime.strptime(s, fmt): <<>> stands for ValueError, <<d>> for the date d
Strptime(s, fmt) == DateOf(s, fmt, MatchWhole(FormatRegex(fmt), s))

DateFormats ==
    << <<"%m", "/", "%d", "/", "%Y">>, <<"%m", "/", "%d", "/", "%y">>,
       <<"%m", "-", "%d", "-", "%Y">>, <<"%m", "-", "%d", "-", "%y">>,
       <<"%m", "/", "%d">>, <<"%b", " ", "%d">>, <<"%B", " ", "%d">>,
       <<"%d", " ", "%b">>, <<"%d", " ", "%B">> >>

\* the formats from the i-th on, in order; <<>> stands for None.  year = 0
\* stands for a year argument that is None (or 0): it is not applied.
RECURSIVE ParseDateFrom(_, _, _)

\* a loop body that never applies the year argument
ParsedOrNext_KeepYear(s, year, i, parsed) ==
    IF parsed = <<>> THEN ParseDateFrom(s, year, i + 1) ELSE parsed

\* the body of 'for fmt in formats' for the i-th format, parsed being what
\* strptime gave
ParsedOrNext(s, year, i, parsed) ==
    IF parsed = <<>> THEN ParseDateFrom(s, year, i + 1)
    ELSE IF ~HasYear(DateFormats[i]) /\ year # 0
         THEN IF parsed[1].d > DaysInMonth(year, parsed[1].m)
              THEN ParseDateFrom(s, year, i + 1)
              ELSE <<[parsed[1] EXCEPT !.y = year]>>
    ELSE parsed

ParseDateFrom(s, year, i) ==
    IF i > Len(DateFormats) THEN <<>>
    ELSE ParsedOrNext(s, year, i, Strptime(s, DateFormats[i]))

_parse_date(date_str, year) == ParseDateFrom(Strip(date_str), year, 1)

\* ------------------------------------------------------------------------
\* ParseResult, ExtractedTransaction
\* ------------------------------------------------------------------------
\* Optional values: None is <<>>, a present value v is <<v>>
None == <<>>

Some(v) == <<v>>

ExtractedTransaction(date, merchant, amount, transaction_type, raw_text) ==
    [date |-> date, merchant |-> merchant, amount |-> amount,
     transaction_type |-> transaction_type, raw_text |-> raw_text]

ParseResult(success, institution, account_type, account_identifier, statement_period, transactions, error_message) ==
    [success |-> success, institution |-> institution, account_type |-> account_type,
     account_identifier |-> account_identifier, statement_period |-> statement_period,
     transactions |-> transactions, error_message |-> error_message]

\* a keyword test that forgets .lower()
AnyKeywordIn_CaseSensitive(kws, s) == \E i \in DOMAIN kws : Contains(s, kws[i])

\* any(kw in s.lower() for kw in kws)
AnyKeywordIn(kws, s) == \E i \in DOMAIN kws : Contains(ToLower(s), kws[i])

Abs(n) == IF n < 0 THEN -n ELSE n

\* r'(-?\$?[\d,]+\.\d{2})' without the parentheses
AmountPattern ==
    <<Rep({"-"}, 0, 1), Rep({"$"}, 0, 1), Plus(DigitComma), One({"."}), Rep(Digit, 2, 2)>>

\* r'[\d,]+\.\d{2}'
PlainAmountPattern == <<Plus(DigitComma), One({"."}), Rep(Digit, 2, 2)>>

\* r'\d{2}/\d{2}'
MonthDayPattern == <<Rep(Digit, 2, 2), One({"/"}), Rep(Digit, 2, 2)>>

\* r'(?:\*+|x+)?' under re.IGNORECASE
MaskPattern == <<Opt(<<Alt(<< <<Plus({"*"})>>, <<Plus({"x", "X"})>> >>)>>)>>

\* r'(\w+\s+\d{1,2})[,\s]+(\d{4})' with groups g and g + 1
DayYearPattern(g) ==
    <<Open(g), Plus(Word), Plus(Space), Rep(Digit, 1, 2), Close(g),
      Plus({","} \cup Space), Open(g + 1), Rep(Digit, 4, 4), Close(g + 1)>>

\* r'20\d{2}'
YearPattern == <<One({"2"}), One({"0"}), Rep(Digit, 2, 2)>>

\* a default year that is the calendar year whatever the text holds
YearOr_AlwaysNow(full_text, year_match, now_year) == now_year

\* the default year of a statement: the first 20xx in the text, else
\* datetime.now().year
YearOr(full_text, year_match, now_year) ==
    IF year_match # <<>> THEN IntOf(Group0(full_text, year_match[1])) ELSE now_year

\* a default year that ignores the text
InferYear_Clock(full_text, now_year) == now_year

InferYear(full_text, now_year) ==
    YearOr(full_text, Search(YearPattern, full_text), now_year)

RECURSIVE Digits(_, _)
Digits(n, width) ==
    IF width = 0 THEN <<>> ELSE Digits(n \div 10, width - 1) \o <<DigitSeq[(n % 10) + 1]>>

\* date.strftime("%Y-%m")
StrftimeYm(d) == Digits(d.y, 4) \o <<"-">> \o Digits(d.m, 2)

\* datetime.strptime(f"{day} {year}", "%B %d %Y")
StrptimeBdY(day, year) == Strptime(day \o <<" ">> \o year, <<"%B", " ", "%d", " ", "%Y">>)

\* 'statement_period = end_date.strftime("%Y-%m")', or fallback when strptime
\* raised ValueError
PeriodOr(end_date, fallback) ==
    IF end_date # <<>> THEN Some(StrftimeYm(end_date[1])) ELSE fallback

\* 'if account_match: account_identifier = account_match.group(1)'
GroupOrNone(text, m, g) == IF m = <<>> THEN None ELSE Some(Group(text, m[1], g))

\* the transactions a loop 'for match in pattern.finditer(full_text)' appends:
\* each match gives <<>> when it is skipped and <<t>> when t is appended
Appended(perMatch) == Flatten(perMatch)

\* ------------------------------------------------------------------------
\* Documents (what pdfplumber gives for a path)
\* ------------------------------------------------------------------------
\* A document is [pages, opens, badpage, errmsg]: pages[i] is the text
\* page.extract_text() returns for page i (<<>> for a page without text);
\* opens = FALSE when pdfplumber.open raises; badpage = k > 0 when
\* extract_text raises on page k; errmsg is str(e) of the exception raised.
Readable(doc) == doc.opens /\ doc.badpage = 0

\* the loop 'for page in pages[:upto]: text += page_text + "\n"'; raised tells
\* whether an exception ended it, text is what was accumulated until then
RECURSIVE ReadFrom(_, _, _, _)
ReadFrom(doc, i, upto, text) ==
    IF i > upto \/ i > Len(doc.pages) THEN [raised |-> FALSE, text |-> text]
    ELSE IF doc.badpage = i THEN [raised |-> TRUE, text |-> text]
    ELSE ReadFrom(doc, i + 1, upto,
                  IF doc.pages[i] # <<>> THEN text \o doc.pages[i] \o <<"\n">> ELSE text)

ReadPages(doc, upto) ==
    IF ~doc.opens THEN [raised |-> TRUE, text |-> <<>>]
    ELSE ReadFrom(doc, 1, upto, <<>>)

\* a read that swallows the exception, as get_parser does
FullText_Swallow(doc) == [raised |-> FALSE, text |-> ReadPages(doc, Len(doc.pages)).text]

\* StatementParser._extract_text and the identical loop in every parse
FullText(doc) == ReadPages(doc, Len(doc.pages))

\* a failure result that drops the message
Failure_NoMessage(institution, account_type, e) ==
    ParseResult(FALSE, institution, account_type, None, None, <<>>, None)

\* the 'except Exception as e' branch of every parse
Failure(institution, account_type, e) ==
    ParseResult(FALSE, institution, account_type, None, None, <<>>, Some(e))

\* ------------------------------------------------------------------------
\* ChaseParser
\* ------------------------------------------------------------------------
KwChase == <<"c", "h", "a", "s", "e">>

KwJpmorgan == <<"j", "p", "m", "o", "r", "g", "a", "n">>

KwJpmcb == <<"j", "p", "m", "c", "b">>

KwCreditCard == <<"c", "r", "e", "d", "i", "t", " ", "c", "a", "r", "d">>

KwPayment == <<"p", "a", "y", "m", "e", "n", "t">>

KwRefund == <<"r", "e", "f", "u", "n", "d">>

KwCredit == <<"c", "r", "e", "d", "i", "t">>

\* can_parse asking for 'jpmorgan' and 'credit card' together
ChaseCanParse_AllKeywords(text) ==
    /\ Contains(ToLower(text), KwChase)
    /\ Contains(ToLower(text), KwJpmorgan)
    /\ Contains(ToLower(text), KwCreditCard)

ChaseCanParse(text) ==
    /\ Contains(ToLower(text), KwChase)
    /\ \/ Contains(ToLower(text), KwJpmorgan)
       \/ Contains(ToLower(text), KwJpmcb)
       \/ Contains(ToLower(text), KwCreditCard)

\* r'Account\s+(?:Number|#)?[:\s]*(?:\*+|x+)?(\d{4})', re.IGNORECASE
ChaseAccountPattern ==
    Lit(<<"A", "c", "c", "o", "u", "n", "t">>, TRUE) \o <<Plus(Space), Opt(<<Alt(<<Lit(<<"N", "u", "m", "b", "e", "r">>, TRUE), Lit(<<"#">>, TRUE)>>)>>), Star({":"} \cup Space)>>
    \o MaskPattern \o <<Open(1), Rep(Digit, 4, 4), Close(1)>>

\* r'(?:Statement|Billing)\s+(?:Period|Date)[:\s]*(\w+\s+\d{1,2})[,\s]+(\d{4})
\*   \s*[-...to]+\s*(\w+\s+\d{1,2})[,\s]+(\d{4})', re.IGNORECASE
ChasePeriodPattern ==
    <<Alt(<<Lit(<<"S", "t", "a", "t", "e", "m", "e", "n", "t">>, TRUE), Lit(<<"B", "i", "l", "l", "i", "n", "g">>, TRUE)>>), Plus(Space), Alt(<<Lit(<<"P", "e", "r", "i", "o", "d">>, TRUE), Lit(<<"D", "a", "t", "e">>, TRUE)>>),
      Star({":"} \cup Space)>>
    \o DayYearPattern(1)
    \o <<Star(Space), Plus({"-", "t", "o", "T", "O"}), Star(Space)>>
    \o DayYearPattern(3)

\* r'(\d{2}/\d{2})\s+(.+?)\s+(-?\$?[\d,]+\.\d{2})'
ChaseTransactionPattern ==
    <<Open(1)>> \o MonthDayPattern \o <<Close(1), Plus(Space), Open(2), PlusLazy(AnyChar),
      Close(2), Plus(Space), Open(3)>> \o AmountPattern \o <<Close(3)>>

ChaseSkipKeywords ==
    << <<"t", "o", "t", "a", "l">>,
       <<"b", "a", "l", "a", "n", "c", "e">>,
       <<"p", "a", "y", "m", "e", "n", "t", " ", "d", "u", "e">>,
       <<"c", "r", "e", "d", "i", "t", " ", "l", "i", "m", "i", "t">>,
       <<"a", "v", "a", "i", "l", "a", "b", "l", "e">>,
       <<"m", "i", "n", "i", "m", "u", "m">> >>

\* a loop body that keeps the amount as parsed whatever the type
ChaseRow_KeepSign(merchant, parsed_date, amount, raw_text) ==
    LET trans_type ==
            IF amount < 0 \/ Contains(ToLower(merchant), KwPayment) THEN "payment"
            ELSE IF Contains(ToLower(merchant), KwRefund) \/ Contains(ToLower(merchant), KwCredit)
            THEN "refund"
            ELSE "purchase"
    IN  IF AnyKeywordIn(ChaseSkipKeywords, merchant) THEN <<>>
        ELSE IF parsed_date = None THEN <<>>
        ELSE <<ExtractedTransaction(parsed_date[1], merchant, amount, trans_type, raw_text)>>

\* the body of 'for match in transaction_pattern.finditer(full_text)' once the
\* groups are read and parsed
ChaseRow(merchant, parsed_date, amount, raw_text) ==
    LET trans_type ==
            IF amount < 0 \/ Contains(ToLower(merchant), KwPayment) THEN "payment"
            ELSE IF Contains(ToLower(merchant), KwRefund) \/ Contains(ToLower(merchant), KwCredit)
            THEN "refund"
            ELSE "purchase"
    IN  IF AnyKeywordIn(ChaseSkipKeywords, merchant) THEN <<>>
        ELSE IF parsed_date = None THEN <<>>
        ELSE <<ExtractedTransaction(parsed_date[1], merchant,
                                    IF trans_type = "purchase" THEN Abs(amount) ELSE -Abs(amount),
                                    trans_type, raw_text)>>

ChaseTransaction(full_text, match, year) ==
    ChaseRow(Strip(Group(full_text, match, 2)),
             _parse_date(Group(full_text, match, 1), year),
             _parse_amount(Group(full_text, match, 3)),
             Group0(full_text, match))

\* 'for match in transaction_pattern.finditer(full_text)'
ChaseTransactionsOf(full_text, matches, year) ==
    Appended([k \in DOMAIN matches |-> ChaseTransaction(full_text, matches[k], year)])

ChaseTransactions(full_text, year) ==
    ChaseTransactionsOf(full_text, FindIter(ChaseTransactionPattern, full_text), year)

\* the period from the match of the period pattern; the end year alone when
\* strptime does not read the end date
ChasePeriodOf(full_text, period_match) ==
    IF period_match = <<>> THEN None
    ELSE PeriodOr(StrptimeBdY(Group(full_text, period_match[1], 3),
                              Group(full_text, period_match[1], 4)),
                  Some(Group(full_text, period_match[1], 4)))

ChaseStatementPeriod(full_text) ==
    ChasePeriodOf(full_text, Search(ChasePeriodPattern, full_text))

ChaseAccountIdentifier(full_text) ==
    GroupOrNone(full_text, Search(ChaseAccountPattern, full_text), 1)

\* a parse whose 'except' around the strptime of the period is missing: the
\* ValueError reaches the 'except Exception' of the parse
ChaseParse_PeriodUncaught(doc, now_year) ==
    LET r == FullText(doc)
        full_text == r.text
        year == InferYear(full_text, now_year)
    IN  IF r.raised THEN Failure("Chase", "credit_card", doc.errmsg)
        ELSE IF ChaseStatementPeriod(full_text) # None
                  /\ Len(ChaseStatementPeriod(full_text)[1]) = 4
             THEN Failure("Chase", "credit_card", "time data does not match format")
        ELSE ParseResult(TRUE, "Chase", "credit_card",
                         ChaseAccountIdentifier(full_text),
                         ChaseStatementPeriod(full_text),
                         ChaseTransactions(full_text, year),
                         None)

ChaseParse(doc, now_year) ==
    LET r == FullText(doc)
        full_text == r.text
        year == InferYear(full_text, now_year)
    IN  IF r.raised THEN Failure("Chase", "credit_card", doc.errmsg)
        ELSE ParseResult(TRUE, "Chase", "credit_card",
                         ChaseAccountIdentifier(full_text),
                         ChaseStatementPeriod(full_text),
                         ChaseTransactions(full_text, year),
                         None)

\* ------------------------------------------------------------------------
\* AmexParser
\* ------------------------------------------------------------------------
KwAmericanExpress == <<"a", "m", "e", "r", "i", "c", "a", "n", " ", "e", "x", "p", "r", "e", "s", "s">>

KwAmex == <<"a", "m", "e", "x">>

AmexCanParse(text) ==
    Contains(ToLower(text), KwAmericanExpress) \/ Contains(ToLower(text), KwAmex)

\* r'(?:Account|Card)\s*(?:Ending|Number)?[:\s]*(?:\*+|x+)?(\d{4,5})', re.IGNORECASE
AmexAccountPattern ==
    <<Alt(<<Lit(<<"A", "c", "c", "o", "u", "n", "t">>, TRUE), Lit(<<"C", "a", "r", "d">>, TRUE)>>), Star(Space), Opt(<<Alt(<<Lit(<<"E", "n", "d", "i", "n", "g">>, TRUE), Lit(<<"N", "u", "m", "b", "e", "r">>, TRUE)>>)>>),
      Star({":"} \cup Space)>>
    \o MaskPattern \o <<Open(1), Rep(Digit, 4, 5), Close(1)>>

\* r'(?:Statement|Closing)\s+Date[:\s]*(\w+\s+\d{1,2})[,\s]+(\d{4})', re.IGNORECASE
AmexPeriodPattern ==
    <<Alt(<<Lit(<<"S", "t", "a", "t", "e", "m", "e", "n", "t">>, TRUE), Lit(<<"C", "l", "o", "s", "i", "n", "g">>, TRUE)>>), Plus(Space)>> \o Lit(<<"D", "a", "t", "e">>, TRUE)
    \o <<Star({":"} \cup Space)>> \o DayYearPattern(1)

\* r'(\d{2}/\d{2}/?\d{0,2})\s+(.+?)\s+(-?\$?[\d,]+\.\d{2})$', re.MULTILINE
AmexPattern1 ==
    <<Open(1)>> \o MonthDayPattern \o <<Rep({"/"}, 0, 1), Rep(Digit, 0, 2), Close(1),
      Plus(Space), Open(2), PlusLazy(AnyChar), Close(2), Plus(Space), Open(3)>>
    \o AmountPattern \o <<Close(3), Eol>>

\* r'(\d{2}/\d{2})\s+(.+?)\s+[A-Z0-9]+\s+(-?\$?[\d,]+\.\d{2})', re.MULTILINE
AmexPattern2 ==
    <<Open(1)>> \o MonthDayPattern \o <<Close(1), Plus(Space), Open(2), PlusLazy(AnyChar),
      Close(2), Plus(Space), Plus(UpperDigit), Plus(Space), Open(3)>>
    \o AmountPattern \o <<Close(3)>>

AmexPatterns == <<AmexPattern1, AmexPattern2>>

AmexSkipKeywords ==
    << <<"t", "o", "t", "a", "l">>,
       <<"b", "a", "l", "a", "n", "c", "e">>,
       <<"p", "a", "y", "m", "e", "n", "t">>,
       <<"c", "r", "e", "d", "i", "t", " ", "l", "i", "m", "i", "t">>,
       <<"a", "v", "a", "i", "l", "a", "b", "l", "e">>,
       <<"m", "i", "n", "i", "m", "u", "m">>,
       <<"f", "e", "e">> >>

\* len(merchant) < MinMerchantLen: 'merchant is too short'
MinMerchantLen == 3

\* the body of 'for match in pattern.finditer(full_text)' once the groups are
\* read and parsed
AmexRow(merchant, parsed_date, amount0, raw_text) ==
    LET is_refund == Contains(ToLower(merchant), KwRefund) \/ Contains(ToLower(merchant), KwCredit)
        trans_type == IF amount0 < 0 THEN "payment"
                      ELSE IF is_refund THEN "refund"
                      ELSE "purchase"
        amount == IF trans_type = "refund" THEN -Abs(amount0) ELSE amount0
    IN  IF AnyKeywordIn(AmexSkipKeywords, merchant) THEN <<>>
        ELSE IF Len(merchant) < MinMerchantLen THEN <<>>
        ELSE IF parsed_date = None THEN <<>>
        ELSE <<ExtractedTransaction(parsed_date[1], merchant,
                                    IF trans_type = "purchase" THEN Abs(amount) ELSE amount,
                                    trans_type, raw_text)>>

\* a row whose raw_text is the description instead of the whole match
AmexTransaction_MerchantAsRaw(full_text, match, year) ==
    AmexRow(Strip(Group(full_text, match, 2)),
            _parse_date(Group(full_text, match, 1), year),
            _parse_amount(Group(full_text, match, 3)),
            Strip(Group(full_text, match, 2)))

AmexTransaction(full_text, match, year) ==
    AmexRow(Strip(Group(full_text, match, 2)),
            _parse_date(Group(full_text, match, 1), year),
            _parse_amount(Group(full_text, match, 3)),
            Group0(full_text, match))

\* 'for match in pattern.finditer(full_text)'
AmexTransactionsOf(full_text, matches, year) ==
    Appended([k \in DOMAIN matches |-> AmexTransaction(full_text, matches[k], year)])

\* 'for pattern in patterns: ...; if transactions: break', from pattern i on
RECURSIVE AmexTransactionsFrom(_, _, _)

\* a loop without the break: the later patterns add to what was found
AmexFoundOrNext_Union(full_text, year, i, found) ==
    found \o AmexTransactionsFrom(full_text, year, i + 1)

\* 'if transactions: break' after the i-th pattern found the transactions found
AmexFoundOrNext(full_text, year, i, found) ==
    IF found # <<>> THEN found ELSE AmexTransactionsFrom(full_text, year, i + 1)

AmexTransactionsFrom(full_text, year, i) ==
    IF i > Len(AmexPatterns) THEN <<>>
    ELSE AmexFoundOrNext(full_text, year, i,
             AmexTransactionsOf(full_text, FindIter(AmexPatterns[i], full_text), year))

AmexPeriodOf(full_text, period_match) ==
    IF period_match = <<>> THEN None
    ELSE PeriodOr(StrptimeBdY(Group(full_text, period_match[1], 1),
                              Group(full_text, period_match[1], 2)),
                  None)

AmexStatementPeriod(full_text) ==
    AmexPeriodOf(full_text, Search(AmexPeriodPattern, full_text))

\* s[-n:]
LastN(s, n) == IF Len(s) <= n THEN s ELSE SubSeq(s, Len(s) - n + 1, Len(s))

\* 'account_identifier = account_match.group(1)[-4:]'
AmexAccountOf(full_text, account_match) ==
    IF account_match = <<>> THEN None
    ELSE Some(LastN(Group(full_text, account_match[1], 1), 4))

AmexAccountIdentifier(full_text) ==
    AmexAccountOf(full_text, Search(AmexAccountPattern, full_text))

AmexParse(doc, now_year) ==
    LET r == FullText(doc)
        full_text == r.text
        year == InferYear(full_text, now_year)
    IN  IF r.raised THEN Failure("American Express", "credit_card", doc.errmsg)
        ELSE ParseResult(TRUE, "American Express", "credit_card",
                         AmexAccountIdentifier(full_text),
                         AmexStatementPeriod(full_text),
                         AmexTransactionsFrom(full_text, year, 1),
                         None)

\* ------------------------------------------------------------------------
\* TruistParser
\* ------------------------------------------------------------------------
KwTruist == <<"t", "r", "u", "i", "s", "t">>

KwBbt == <<"b", "b", "&", "t">>

KwSuntrust == <<"s", "u", "n", "t", "r", "u", "s", "t">>

KwSavings == <<"s", "a", "v", "i", "n", "g", "s">>

TruistCanParse(text) ==
    \/ Contains(ToLower(text), KwTruist)
    \/ Contains(ToLower(text), KwBbt)
    \/ Contains(ToLower(text), KwSuntrust)

\* r'Account\s*(?:Number)?[:\s]*(?:\*+|x+)?(\d{4})', re.IGNORECASE
TruistAccountPattern ==
    Lit(<<"A", "c", "c", "o", "u", "n", "t">>, TRUE) \o <<Star(Space), Opt(Lit(<<"N", "u", "m", "b", "e", "r">>, TRUE)), Star({":"} \cup Space)>>
    \o MaskPattern \o <<Open(1), Rep(Digit, 4, 4), Close(1)>>

\* r'(?:Statement\s+Period|From)[:\s]*(\w+\s+\d{1,2})[,\s]+(\d{4})
\*   \s*(?:through|to|-)\s*(\w+\s+\d{1,2})[,\s]+(\d{4})', re.IGNORECASE
TruistPeriodPattern ==
    <<Alt(<<Lit(<<"S", "t", "a", "t", "e", "m", "e", "n", "t">>, TRUE) \o <<Plus(Space)>> \o Lit(<<"P", "e", "r", "i", "o", "d">>, TRUE), Lit(<<"F", "r", "o", "m">>, TRUE)>>),
      Star({":"} \cup Space)>>
    \o DayYearPattern(1)
    \o <<Star(Space), Alt(<<Lit(<<"t", "h", "r", "o", "u", "g", "h">>, TRUE), Lit(<<"t", "o">>, TRUE), Lit(<<"-">>, TRUE)>>), Star(Space)>>
    \o DayYearPattern(3)

\* r'(\d{2}/\d{2})\s+(.+?)\s+([\d,]+\.\d{2})?\s*([\d,]+\.\d{2})?\s+[\d,]+\.\d{2}$',
\* re.MULTILINE
TruistPattern1 ==
    <<Open(1)>> \o MonthDayPattern \o <<Close(1), Plus(Space), Open(2), PlusLazy(AnyChar),
      Close(2), Plus(Space),
      Opt(<<Open(3)>> \o PlainAmountPattern \o <<Close(3)>>), Star(Space),
      Opt(<<Open(4)>> \o PlainAmountPattern \o <<Close(4)>>), Plus(Space)>>
    \o PlainAmountPattern \o <<Eol>>

\* r'(\d{2}/\d{2})\s+(.+?)\s+(-?\$?[\d,]+\.\d{2})', re.MULTILINE
TruistPattern2 ==
    <<Open(1)>> \o MonthDayPattern \o <<Close(1), Plus(Space), Open(2), PlusLazy(AnyChar),
      Close(2), Plus(Space), Open(3)>> \o AmountPattern \o <<Close(3)>>

\* the patterns with len(match.groups()) of each
TruistPatterns == <<[re |-> TruistPattern1, groups |-> 4], [re |-> TruistPattern2, groups |-> 3]>>

TruistSkipKeywords ==
    << <<"b", "a", "l", "a", "n", "c", "e">>,
       <<"t", "o", "t", "a", "l">>,
       <<"b", "e", "g", "i", "n", "n", "i", "n", "g">>,
       <<"e", "n", "d", "i", "n", "g">>,
       <<"s", "u", "m", "m", "a", "r", "y">>,
       <<"s", "t", "a", "t", "e", "m", "e", "n", "t">> >>

\* the body of 'for match in pattern.finditer(full_text)' once the groups are
\* read and parsed: parsed is _parse_amount of the credit column when the
\* pattern has columns and the debit column is empty, of group 3 otherwise
TruistRow(match, groups, merchant, parsed_date, parsed, raw_text) ==
    LET has_debit == ~GroupUnset(match, 3)
        has_credit == ~GroupUnset(match, 4)
        columns == groups >= 4
        amount == IF columns /\ ~has_debit THEN -parsed ELSE parsed
        trans_type == IF columns
                      THEN IF has_debit THEN "withdrawal" ELSE "deposit"
                      ELSE IF amount > 0 THEN "withdrawal" ELSE "deposit"
    IN  IF columns /\ ~has_debit /\ ~has_credit THEN <<>>
        ELSE IF AnyKeywordIn(TruistSkipKeywords, merchant) THEN <<>>
        ELSE IF Len(merchant) < MinMerchantLen THEN <<>>
        ELSE IF parsed_date = None THEN <<>>
        ELSE <<ExtractedTransaction(parsed_date[1], merchant, amount, trans_type, raw_text)>>

TruistTransaction(full_text, match, year, groups) ==
    TruistRow(match, groups,
              Strip(Group(full_text, match, 2)),
              _parse_date(Group(full_text, match, 1), year),
              _parse_amount(Group(full_text, match,
                                  IF groups >= 4 /\ GroupUnset(match, 3) THEN 4 ELSE 3)),
              Group0(full_text, match))

\* 'for match in pattern.finditer(full_text)'
TruistTransactionsOf(full_text, matches, year, groups) ==
    Appended([k \in DOMAIN matches |-> TruistTransaction(full_text, matches[k], year, groups)])

\* 'for pattern in patterns: ...; if transactions: break', from pattern i on
RECURSIVE TruistTransactionsFrom(_, _, _)

\* 'if transactions: break' after the i-th pattern found the transactions found
TruistFoundOrNext(full_text, year, i, found) ==
    IF found # <<>> THEN found ELSE TruistTransactionsFrom(full_text, year, i + 1)

TruistTransactionsFrom(full_text, year, i) ==
    IF i > Len(TruistPatterns) THEN <<>>
    ELSE TruistFoundOrNext(full_text, year, i,
             TruistTransactionsOf(full_text, FindIter(TruistPatterns[i].re, full_text),
                                  year, TruistPatterns[i].groups))

TruistPeriodOf(full_text, period_match) ==
    IF period_match = <<>> THEN None
    ELSE PeriodOr(StrptimeBdY(Group(full_text, period_match[1], 3),
                              Group(full_text, period_match[1], 4)),
                  None)

TruistStatementPeriod(full_text) ==
    TruistPeriodOf(full_text, Search(TruistPeriodPattern, full_text))

TruistAccountIdentifier(full_text) ==
    GroupOrNone(full_text, Search(TruistAccountPattern, full_text), 1)

TruistParse(doc, now_year) ==
    LET r == FullText(doc)
        full_text == r.text
        year == InferYear(full_text, now_year)
    IN  IF r.raised THEN Failure("Truist", "checking", doc.errmsg)
        ELSE ParseResult(TRUE, "Truist",
                         IF Contains(ToLower(full_text), KwSavings) THEN "savings" ELSE "checking",
                         TruistAccountIdentifier(full_text),
                         TruistStatementPeriod(full_text),
                         TruistTransactionsFrom(full_text, year, 1),
                         None)

\* ------------------------------------------------------------------------
\* GenericParser
\* ------------------------------------------------------------------------
GenericCanParse(text) == TRUE

\* the if/elif chain that guesses the institution
GenericInstitutions ==
    <<[kws |-> <<KwChase>>, name |-> "Chase"],
      [kws |-> <<KwAmericanExpress, KwAmex>>, name |-> "American Express"],
      [kws |-> <<KwTruist>>, name |-> "Truist"],
      [kws |-> <<<<"b", "a", "n", "k", " ", "o", "f", " ", "a", "m", "e", "r", "i", "c", "a">>>>, name |-> "Bank of America"],
      [kws |-> <<<<"w", "e", "l", "l", "s", " ", "f", "a", "r", "g", "o">>>>, name |-> "Wells Fargo"],
      [kws |-> <<<<"c", "i", "t", "i">>>>, name |-> "Citi"],
      [kws |-> <<<<"c", "a", "p", "i", "t", "a", "l", " ", "o", "n", "e">>>>, name |-> "Capital One"]>>

RECURSIVE GenericInstitutionFrom(_, _)
GenericInstitutionFrom(full_text, i) ==
    IF i > Len(GenericInstitutions) THEN "Unknown"
    ELSE IF AnyKeywordIn(GenericInstitutions[i].kws, full_text) THEN GenericInstitutions[i].name
    ELSE GenericInstitutionFrom(full_text, i + 1)

\* r'(\d{1,2}/\d{1,2}(?:/\d{2,4})?)\s+(.+?)\s+(-?\$?[\d,]+\.\d{2})', re.MULTILINE
GenericPattern ==
    <<Open(1), Rep(Digit, 1, 2), One({"/"}), Rep(Digit, 1, 2),
      Opt(<<One({"/"}), Rep(Digit, 2, 4)>>), Close(1),
      Plus(Space), Open(2), PlusLazy(AnyChar), Close(2), Plus(Space), Open(3)>>
    \o AmountPattern \o <<Close(3)>>

GenericSkipKeywords ==
    << <<"t", "o", "t", "a", "l">>,
       <<"b", "a", "l", "a", "n", "c", "e">>,
       <<"s", "u", "m", "m", "a", "r", "y">>,
       <<"f", "e", "e">>,
       <<"i", "n", "t", "e", "r", "e", "s", "t">>,
       <<"m", "i", "n", "i", "m", "u", "m">> >>

\* the body of 'for match in pattern.finditer(full_text)' once the groups are
\* read and parsed
GenericRow(merchant, parsed_date, amount, raw_text) ==
    IF AnyKeywordIn(GenericSkipKeywords, merchant) THEN <<>>
    ELSE IF Len(merchant) < MinMerchantLen THEN <<>>
    ELSE IF parsed_date = None THEN <<>>
    ELSE <<ExtractedTransaction(parsed_date[1], merchant, amount,
                                IF amount > 0 THEN "purchase" ELSE "credit", raw_text)>>

GenericTransaction(full_text, match, year) ==
    GenericRow(Strip(Group(full_text, match, 2)),
               _parse_date(Group(full_text, match, 1), year),
               _parse_amount(Group(full_text, match, 3)),
               Group0(full_text, match))

\* 'for match in pattern.finditer(full_text)'
GenericTransactionsOf(full_text, matches, year) ==
    Appended([k \in DOMAIN matches |-> GenericTransaction(full_text, matches[k], year)])

GenericTransactions(full_text, year) ==
    GenericTransactionsOf(full_text, FindIter(GenericPattern, full_text), year)

\* a parse that fails when it finds no transaction
GenericParse_FailOnEmpty(doc, now_year) ==
    LET r == FullText(doc)
        full_text == r.text
        year == InferYear(full_text, now_year)
        found == GenericTransactions(full_text, year)
    IN  IF r.raised THEN Failure("Unknown", "unknown", doc.errmsg)
        ELSE IF found = <<>> THEN Failure("Unknown", "unknown", "no transactions")
        ELSE ParseResult(TRUE, GenericInstitutionFrom(full_text, 1), "unknown", None, None,
                         found, None)

GenericParse(doc, now_year) ==
    LET r == FullText(doc)
        full_text == r.text
        year == InferYear(full_text, now_year)
    IN  IF r.raised THEN Failure("Unknown", "unknown", doc.errmsg)
        ELSE ParseResult(TRUE, GenericInstitutionFrom(full_text, 1), "unknown", None, None,
                         GenericTransactions(full_text, year),
                         None)

\* ------------------------------------------------------------------------
\* StatementParserFactory
\* ------------------------------------------------------------------------
\* self.parsers with the first two parsers swapped
Parsers_AmexFirst == <<"Amex", "Chase", "Truist", "Generic">>

\* self.parsers
Parsers == <<"Chase", "Amex", "Truist", "Generic">>

CanParse(parser, text) ==
    CASE parser = "Chase" -> ChaseCanParse(text)
      [] parser = "Amex" -> AmexCanParse(text)
      [] parser = "Truist" -> TruistCanParse(text)
      [] parser = "Generic" -> GenericCanParse(text)

ParserParse(parser, doc, now_year) ==
    CASE parser = "Chase" -> ChaseParse(doc, now_year)
      [] parser = "Amex" -> AmexParse(doc, now_year)
      [] parser = "Truist" -> TruistParse(doc, now_year)
      [] parser = "Generic" -> GenericParse(doc, now_year)

\* a detection that reads every page
DetectPages_Every == 2 + 2

\* the number of pages get_parser reads: pdf.pages[:2]
DetectPages == 2

\* the text get_parser detects on: the first pages, or whatever was read
\* before an exception, which 'except: pass' swallows
DetectionText(doc) == ReadPages(doc, DetectPages).text

\* 'for parser in self.parsers: if parser.can_parse(text): return parser',
\* from the i-th parser on; self.parsers[-1] when the loop ends
RECURSIVE FirstParserFrom(_, _)
FirstParserFrom(text, i) ==
    IF i > Len(Parsers) THEN Parsers[Len(Parsers)]
    ELSE IF CanParse(Parsers[i], text) THEN Parsers[i]
    ELSE FirstParserFrom(text, i + 1)

get_parser(doc) == FirstParserFrom(DetectionText(doc), 1)

\* ------------------------------------------------------------------------
\* The documents of the model
\* ------------------------------------------------------------------------
\* The pages a document is made of, line by line
\* JPMorgan Chase | Account Number: 123456 | Statement Period: Jan 1, 2024 - Feb 28, 2024
PageChase ==
    <<"J", "P", "M", "o", "r", "g", "a", "n", " ", "C", "h", "a", "s", "e", "\n">>
    \o <<"A", "c", "c", "o", "u", "n", "t", " ", "N", "u", "m", "b", "e", "r", ":", " ", "1", "2", "3", "4", "5", "6", "\n">>
    \o <<"S", "t", "a", "t", "e", "m", "e", "n", "t", " ", "P", "e", "r", "i", "o", "d", ":", " ", "J", "a", "n", " ", "1", ",", " ", "2", "0", "2", "4", " ", "-", " ", "F", "e", "b", " ", "2", "8", ",", " ", "2", "0", "2", "4">>

\* American Express | Card Ending 12345 | Closing Date: March 31, 2023
PageAmex ==
    <<"A", "m", "e", "r", "i", "c", "a", "n", " ", "E", "x", "p", "r", "e", "s", "s", "\n">>
    \o <<"C", "a", "r", "d", " ", "E", "n", "d", "i", "n", "g", " ", "1", "2", "3", "4", "5", "\n">>
    \o <<"C", "l", "o", "s", "i", "n", "g", " ", "D", "a", "t", "e", ":", " ", "M", "a", "r", "c", "h", " ", "3", "1", ",", " ", "2", "0", "2", "3">>

\* Truist savings | Account xxxx9876 | Statement Period: January 1, 2025 - March 31, 2025
PageTruist ==
    <<"T", "r", "u", "i", "s", "t", " ", "s", "a", "v", "i", "n", "g", "s", "\n">>
    \o <<"A", "c", "c", "o", "u", "n", "t", " ", "x", "x", "x", "x", "9", "8", "7", "6", "\n">>
    \o <<"S", "t", "a", "t", "e", "m", "e", "n", "t", " ", "P", "e", "r", "i", "o", "d", ":", " ", "J", "a", "n", "u", "a", "r", "y", " ", "1", ",", " ", "2", "0", "2", "5", " ", "-", " ", "M", "a", "r", "c", "h", " ", "3", "1", ",", " ", "2", "0", "2", "5">>

\* 03/01 COFFEE SHOP $5.42 | 03/02 AB 4.10 | 03/03 TOTAL DUE 9.99 | 03/04 REFUND X1 5.00
PageShop ==
    <<"0", "3", "/", "0", "1", " ", "C", "O", "F", "F", "E", "E", " ", "S", "H", "O", "P", " ", "$", "5", ".", "4", "2", "\n">>
    \o <<"0", "3", "/", "0", "2", " ", "A", "B", " ", "4", ".", "1", "0", "\n">>
    \o <<"0", "3", "/", "0", "3", " ", "T", "O", "T", "A", "L", " ", "D", "U", "E", " ", "9", ".", "9", "9", "\n">>
    \o <<"0", "3", "/", "0", "4", " ", "R", "E", "F", "U", "N", "D", " ", "X", "1", " ", "5", ".", "0", "0">>

\* Chase Bank | 03/05 PAYROLL 100.00 250.00 | 03/06 <tab> 7.00 | 03/07 ONLINE PAYMENT 20.00 | 03/08 ADJ -3.00
PageBank ==
    <<"C", "h", "a", "s", "e", " ", "B", "a", "n", "k", "\n">>
    \o <<"0", "3", "/", "0", "5", " ", "P", "A", "Y", "R", "O", "L", "L", " ", "1", "0", "0", ".", "0", "0", " ", "2", "5", "0", ".", "0", "0", "\n">>
    \o <<"0", "3", "/", "0", "6", " ", "\t", " ", "7", ".", "0", "0", "\n">>
    \o <<"0", "3", "/", "0", "7", " ", "O", "N", "L", "I", "N", "E", " ", "P", "A", "Y", "M", "E", "N", "T", " ", "2", "0", ".", "0", "0", "\n">>
    \o <<"0", "3", "/", "0", "8", " ", "A", "D", "J", " ", "-", "3", ".", "0", "0">>

\* a page without text: extract_text() returns None
PageBlank == <<>>

PageLib == {PageChase, PageAmex, PageTruist, PageShop, PageBank, PageBlank}

\* the most pages a document has
MaxPages == 3

\* str(e) of the exception a failing open or extract_text raises
ErrMsgs == {"", "No /Root object"}

PageSeqs == UNION {[1..n -> PageLib] : n \in 0..MaxPages}

Docs ==
    {[pages |-> ps, opens |-> TRUE, badpage |-> 0, errmsg |-> ""] : ps \in PageSeqs}
    \cup {[pages |-> ps, opens |-> FALSE, badpage |-> 0, errmsg |-> e] :
             ps \in PageSeqs, e \in ErrMsgs}
    \cup UNION {{[pages |-> ps, opens |-> TRUE, badpage |-> k, errmsg |-> e] :
                    k \in 1..Len(ps), e \in ErrMsgs} : ps \in PageSeqs}

\* datetime.now().year at the time of a call
NowYears == {2026}

NoDoc == [pages |-> <<>>, opens |-> TRUE, badpage |-> 0, errmsg |-> ""]

NoResult == ParseResult(TRUE, "Unknown", "unknown", None, None, <<>>, None)

\* ------------------------------------------------------------------------
\* State and actions
\* ------------------------------------------------------------------------
\* phase:  "idle" between calls, "called" when StatementParserFactory.parse
\*         has been called with a document, "done" when it has returned
\* doc:    the document of the call
\* parser: the parser get_parser returned
\* result: the ParseResult returned
\* now:    the calendar year at the time of the call
\* kept:   the document and the result of an earlier call that the caller
\*         kept, with the calendar year of that call
\* db_uploads, db_accounts, db_transactions: the rows of the tables
\*         statement_uploads, accounts and transactions, in the order of
\*         their ids
\* response: the response of the last request to /api/upload
VARIABLES phase, doc, parser, result, now, fn, arg, ret, kept, db_uploads, db_accounts, db_transactions, response

\* the call of StatementParserFactory.parse
engineVars == <<phase, doc, parser, result, now>>

\* a direct call of one of the helpers of StatementParser: the helper, its
\* arguments and what it returned
helperVars == <<fn, arg, ret>>

callerVars == <<kept>>

\* the database and the last response of the application
appVars == <<db_uploads, db_accounts, db_transactions, response>>

vars == <<phase, doc, parser, result, now, fn, arg, ret, kept, db_uploads, db_accounts, db_transactions, response>>

\* no helper is being called directly
NoArg == [s |-> <<>>, year |-> 0]

NotReturned == <<>>

NoHelperCall ==
    /\ fn = "none"
    /\ arg = NoArg
    /\ ret = NotReturned

\* the caller has kept nothing
NoKept == [doc |-> NoDoc, result |-> NoResult, now |-> 0]

NoResponse == [status |-> 0]

\* the tables are empty and no request was made
AppEmpty ==
    /\ db_uploads = <<>>
    /\ db_accounts = <<>>
    /\ db_transactions = <<>>
    /\ response = NoResponse

Init ==
    /\ phase = "idle"
    /\ doc = NoDoc
    /\ parser = "none"
    /\ result = NoResult
    /\ now \in NowYears
    /\ NoHelperCall
    /\ kept = NoKept
    /\ AppEmpty

\* a caller calls StatementParserFactory().parse(pdf_path)
Call ==
    /\ phase = "idle"
    /\ phase' = "called"
    /\ \E d \in Docs, y \in NowYears : doc' = d /\ now' = y
    /\ UNCHANGED <<parser, result>>
    /\ UNCHANGED <<helperVars, callerVars, appVars>>

\* StatementParserFactory.parse: get_parser, then the parse of that parser
Parse ==
    /\ phase = "called"
    /\ phase' = "done"
    /\ parser' = get_parser(doc)
    /\ result' = ParserParse(parser', doc, now)
    /\ UNCHANGED <<doc, now>>
    /\ UNCHANGED <<helperVars, callerVars, appVars>>

\* the caller is done with the result; the engine keeps nothing of the call
Return ==
    /\ phase = "done"
    /\ phase' = "idle"
    /\ doc' = NoDoc
    /\ parser' = "none"
    /\ result' = NoResult
    /\ UNCHANGED now
    /\ UNCHANGED <<helperVars, callerVars, appVars>>

Next ==
    \/ Call
    \/ Parse
    \/ Return

Spec == Init /\ [][Next]_vars

\* ------------------------------------------------------------------------
\* Direct calls of StatementParser._parse_amount
\* ------------------------------------------------------------------------
\* the factory is not in a call
EngineIdle ==
    /\ phase = "idle"
    /\ doc = NoDoc
    /\ parser = "none"
    /\ result = NoResult
    /\ now \in NowYears

\* the numerals and the other texts the amount strings are built around
AmountCores ==
    { <<"1", "2", ".", "0", "0">>,
      <<"1", ",", "2", "3", "4", ".", "5", "6">>,
      <<"4", "5", ".", "0", "0">>,
      <<"7">>,
      <<".", "5">>,
      <<"0", ".", "0", "0">>,
      <<"N", "/", "A">>,
      <<>> }

Opts(text) == {<<>>, text}

\* amount strings: a numeral or another text, with or without a leading blank,
\* parentheses, a minus sign, a dollar sign and a CR suffix
AmountStrings ==
    { blank \o open \o sign \o dollar \o core \o close \o suffix :
        blank \in Opts(<<" ">>),
        open \in {<<>>},
        sign \in Opts(<<"-">>),
        dollar \in Opts(<<"$">>),
        core \in AmountCores,
        close \in {<<>>},
        suffix \in Opts(<<"C", "R">>) }
    \cup
    { blank \o <<"(">> \o sign \o dollar \o core \o <<")">> \o suffix :
        blank \in Opts(<<" ">>),
        sign \in Opts(<<"-">>),
        dollar \in Opts(<<"$">>),
        core \in AmountCores,
        suffix \in Opts(<<"C", "R">>) }

InitAmount ==
    /\ EngineIdle
    /\ fn = "_parse_amount"
    /\ arg \in {[s |-> a, year |-> 0] : a \in AmountStrings}
    /\ ret = NotReturned
    /\ kept = NoKept
    /\ AppEmpty

\* self._parse_amount(amount_str)
ParseAmount ==
    /\ fn = "_parse_amount"
    /\ ret = NotReturned
    /\ ret' = <<_parse_amount(arg.s)>>
    /\ UNCHANGED <<fn, arg>>
    /\ UNCHANGED <<engineVars, callerVars, appVars>>

NextAmount == ParseAmount

SpecAmount == InitAmount /\ [][NextAmount]_vars

\* ------------------------------------------------------------------------
\* Direct calls of StatementParser._parse_date, and the parse of a document
\* with a transaction line that starts with the same date text
\* ------------------------------------------------------------------------
DateStrings ==
    { <<"0", "3", "/", "1", "5">>,
      <<"0", "3", "/", "1", "5", "/", "2", "0", "2", "4">>,
      <<"0", "3", "/", "1", "5", "/", "2", "4">>,
      <<"0", "3", "/", "1", "5", "/", "6", "9">>,
      <<"0", "3", "/", "1", "5", "/">>,
      <<"0", "3", "/", "1", "5", "/", "2">>,
      <<"3", "/", "5">>,
      <<"0", "3", "-", "1", "5", "-", "2", "0", "2", "4">>,
      <<"0", "3", "-", "1", "5", "-", "2", "4">>,
      <<"0", "3", "-", "1", "5">>,
      <<"M", "a", "r", " ", "1", "5">>,
      <<"m", "a", "r", "c", "h", " ", "1", "5">>,
      <<"1", "5", " ", "M", "a", "r">>,
      <<"1", "5", " ", "M", "a", "r", "c", "h">>,
      <<"M", "a", "y", " ", "5">>,
      <<"1", "3", "/", "4", "5">>,
      <<"0", "2", "/", "2", "9">>,
      <<"0", "2", "/", "2", "9", "/", "2", "0", "2", "4">>,
      <<"0", "2", "/", "3", "0", "/", "2", "0", "2", "4">>,
      <<" ", "0", "3", "/", "1", "5", "\t">>,
      <<"n", "o", "t", "-", "a", "-", "d", "a", "t", "e">>,
      <<>> }

\* the year argument; 0 stands for None
DateYears == {0, 2023, 2024}

\* the first page of the document, which selects the parser
LineHeaders == {<<>>, <<PageChase>>, <<PageAmex>>, <<PageTruist>>}

\* a readable document whose last page is one line: the date text, a
\* description and an amount
LineDoc(header, date_str) ==
    [pages |-> header \o <<date_str \o <<" ", "B", "O", "O", "K", " ", "S", "T", "O", "R", "E", " ", "5", ".", "4", "2">> >>,
     opens |-> TRUE, badpage |-> 0, errmsg |-> ""]

InitDate ==
    /\ fn = "_parse_date"
    /\ arg \in {[s |-> d, year |-> y] : d \in DateStrings, y \in DateYears}
    /\ ret = NotReturned
    /\ phase = "called"
    /\ doc \in {LineDoc(h, arg.s) : h \in LineHeaders}
    /\ parser = "none"
    /\ result = NoResult
    /\ now \in NowYears
    /\ kept = NoKept
    /\ AppEmpty

\* self._parse_date(date_str, year)
ParseDate ==
    /\ fn = "_parse_date"
    /\ ret = NotReturned
    /\ ret' = <<_parse_date(arg.s, arg.year)>>
    /\ UNCHANGED <<fn, arg>>
    /\ UNCHANGED <<engineVars, callerVars, appVars>>

NextDate ==
    \/ ParseDate
    \/ Parse

SpecDate == InitDate /\ [][NextDate]_vars

\* ------------------------------------------------------------------------
\* Calls of StatementParserFactory.parse over time: the caller keeps the
\* result of a call and the calendar year goes on between calls
\* ------------------------------------------------------------------------
\* the last calendar year of the model
LastYear == 2027

ReadableDoc(pages) == [pages |-> pages, opens |-> TRUE, badpage |-> 0, errmsg |-> ""]

\* documents with transaction lines, with and without a 20xx token in their
\* text, a document without text and one that does not open
RepeatDocs ==
    { ReadableDoc(<<PageShop>>), ReadableDoc(<<PageBank>>),
      ReadableDoc(<<PageChase, PageShop>>), ReadableDoc(<<PageAmex, PageShop>>),
      ReadableDoc(<<PageTruist, PageBank>>), ReadableDoc(<<>>),
      [pages |-> <<PageShop>>, opens |-> FALSE, badpage |-> 0, errmsg |-> "No /Root object"] }

InitRepeat ==
    /\ EngineIdle
    /\ NoHelperCall
    /\ kept = NoKept
    /\ AppEmpty

\* a caller calls parse(pdf_path) on the factory it has or on a new one
CallRepeat ==
    /\ phase = "idle"
    /\ phase' = "called"
    /\ \E d \in RepeatDocs : doc' = d
    /\ UNCHANGED <<parser, result, now>>
    /\ UNCHANGED <<helperVars, callerVars, appVars>>

\* the caller keeps the document and the result of the call that returned
Keep ==
    /\ phase = "done"
    /\ kept = NoKept
    /\ kept' = [doc |-> doc, result |-> result, now |-> now]
    /\ UNCHANGED <<engineVars, helperVars, appVars>>

\* a new calendar year begins between two calls
NewYear ==
    /\ phase = "idle"
    /\ now < LastYear
    /\ now' = now + 1
    /\ UNCHANGED <<phase, doc, parser, result>>
    /\ UNCHANGED <<helperVars, callerVars, appVars>>

NextRepeat ==
    \/ CallRepeat
    \/ Parse
    \/ Keep
    \/ Return
    \/ NewYear

SpecRepeat == InitRepeat /\ [][NextRepeat]_vars

\* ------------------------------------------------------------------------
\* Direct calls of the parse of one parser, as in ChaseParser().parse(pdf_path)
\* ------------------------------------------------------------------------
FixtureLine1 == <<"0", "3", "/", "0", "1", " ", "S", "T", "A", "R", "B", "U", "C", "K", "S", " ", "#", "1", "2", "3", " ", "$", "5", ".", "4", "2">>

FixtureLine2 == <<"0", "3", "/", "0", "2", " ", "A", "M", "A", "Z", "O", "N", ".", "C", "O", "M", " ", "*", "A", "B", "C", "1", "2", "3", " ", "$", "4", "2", ".", "1", "0">>

\* the text of the two fixture lines
PageFixture == FixtureLine1 \o <<"\n">> \o FixtureLine2

\* a line with a reference and with text after the amount
PageHotel == <<"0", "3", "/", "0", "9", " ", "H", "O", "T", "E", "L", " ", "A", "1", " ", "8", "0", ".", "0", "0", " ", "U", "S", "D">>

\* the pages of the documents given to a parser directly
DirectPages == {PageFixture, PageChase, PageAmex, PageTruist, PageShop, PageBank, PageHotel}

DirectDocs ==
    {ReadableDoc(<<>>)}
    \cup {ReadableDoc(<<p>>) : p \in DirectPages}
    \cup {ReadableDoc(<<p, q>>) : p \in DirectPages, q \in DirectPages}

InitDirect ==
    /\ EngineIdle
    /\ NoHelperCall
    /\ kept = NoKept
    /\ AppEmpty

\* a caller calls parse(pdf_path) on a parser it made itself
CallParser ==
    /\ phase = "idle"
    /\ phase' = "called"
    /\ \E d \in DirectDocs : doc' = d
    /\ \E i \in DOMAIN Parsers : parser' = Parsers[i]
    /\ UNCHANGED <<result, now>>
    /\ UNCHANGED <<helperVars, callerVars, appVars>>

\* ChaseParser.parse, AmexParser.parse, TruistParser.parse, GenericParser.parse
ParseDirect ==
    /\ phase = "called"
    /\ phase' = "done"
    /\ result' = ParserParse(parser, doc, now)
    /\ UNCHANGED <<doc, parser, now>>
    /\ UNCHANGED <<helperVars, callerVars, appVars>>

NextDirect ==
    \/ CallParser
    \/ ParseDirect
    \/ Return

SpecDirect == InitDirect /\ [][NextDirect]_vars

\* ------------------------------------------------------------------------
\* upload_statement (POST /api/upload), one request after the other.  The
\* columns that hold file names and timestamps are left out of the rows.
\* ------------------------------------------------------------------------
\* the number of uploads the model goes up to
MaxUploads == 3

UploadFilenames == {<<>>, <<"s", ".", "p", "d", "f">>, <<"S", ".", "P", "D", "F">>, <<"s", ".", "t", "x", "t">>, <<"p", "d", "f">>}

\* the text after the last '.', or the whole text when there is none
RECURSIVE AfterLastDot(_)
AfterLastDot(filename) ==
    IF filename = <<>> \/ filename[Len(filename)] = "." THEN <<>>
    ELSE AfterLastDot(SubSeq(filename, 1, Len(filename) - 1)) \o <<filename[Len(filename)]>>

\* allowed_file(filename)
AllowedFile(filename) ==
    /\ \E i \in DOMAIN filename : filename[i] = "."
    /\ ToLower(AfterLastDot(filename)) = <<"p", "d", "f">>

\* the early returns of upload_statement: the error of the response, or None
Rejection(has_file, filename) ==
    IF ~has_file THEN Some("No file provided")
    ELSE IF filename = <<>> THEN Some("No file selected")
    ELSE IF ~AllowedFile(filename) THEN Some("Only PDF files are allowed")
    ELSE None

\* the statements that are uploaded
UploadDocs ==
    { ReadableDoc(<<PageShop>>), ReadableDoc(<<PageShop, PageShop>>),
      ReadableDoc(<<PageChase, PageShop>>), ReadableDoc(<<PageChase, PageBank>>),
      ReadableDoc(<<PageAmex, PageShop>>), ReadableDoc(<<PageTruist>>),
      [pages |-> <<PageShop>>, opens |-> FALSE, badpage |-> 0, errmsg |-> "No /Root object"],
      [pages |-> <<PageChase, PageShop>>, opens |-> TRUE, badpage |-> 2, errmsg |-> ""] }

\* StatementUpload(filename=filename, status='pending')
NewUpload(id) ==
    [id |-> id, status |-> "pending", error_message |-> None, institution |-> None,
     account_id |-> None, statement_period |-> None, transaction_count |-> 0,
     processed_at |-> None]

\* account_type.replace('_', ' ').title()
TitleOf(account_type) ==
    CASE account_type = "credit_card" -> "Credit Card"
      [] account_type = "checking" -> "Checking"
      [] account_type = "savings" -> "Savings"
      [] account_type = "unknown" -> "Unknown"

\* Account(name=..., account_type=..., institution=..., last_four=...)
NewAccount(id, res) ==
    [id |-> id, name |-> <<res.institution, " ", TitleOf(res.account_type)>>,
     account_type |-> res.account_type, institution |-> res.institution,
     last_four |-> res.account_identifier]

\* a query that compares last_four with '=', which no row with a null
\* last_four satisfies
AccountIndex_EqualsNull(accounts, res) ==
    IF \E i \in DOMAIN accounts : /\ accounts[i].institution = res.institution
                                  /\ accounts[i].last_four = res.account_identifier
                                  /\ res.account_identifier # None
    THEN CHOOSE i \in DOMAIN accounts :
             /\ accounts[i].institution = res.institution
             /\ accounts[i].last_four = res.account_identifier
    ELSE 0

\* Account.query.filter_by(institution=..., last_four=...).first(): the
\* index of the row, 0 when there is none
AccountIndex(accounts, res) ==
    IF \E i \in DOMAIN accounts : /\ accounts[i].institution = res.institution
                                  /\ accounts[i].last_four = res.account_identifier
    THEN CHOOSE i \in DOMAIN accounts :
             /\ accounts[i].institution = res.institution
             /\ accounts[i].last_four = res.account_identifier
             /\ \A j \in 1..(i - 1) : ~(/\ accounts[j].institution = res.institution
                                        /\ accounts[j].last_four = res.account_identifier)
    ELSE 0

\* 'if not account: account = Account(...); db.session.add(account)'
AccountsAfter(accounts, res) ==
    IF AccountIndex(accounts, res) # 0 THEN accounts
    ELSE Append(accounts, NewAccount(Len(accounts) + 1, res))

\* the account of the statement
AccountFor(accounts, res) == AccountsAfter(accounts, res)[
    IF AccountIndex(accounts, res) # 0 THEN AccountIndex(accounts, res) ELSE Len(accounts) + 1]

\* Transaction.query.filter_by(date=..., raw_merchant=..., amount=...,
\* account_id=...).first() finds a row
IsDuplicate(rows, txn, account_id) ==
    \E i \in DOMAIN rows :
        /\ rows[i].date = txn.date
        /\ rows[i].raw_merchant = txn.merchant
        /\ rows[i].amount = txn.amount
        /\ rows[i].account_id = account_id

\* Transaction(date=..., raw_merchant=..., ...)
NewTransaction(id, txn, account_id, period) ==
    [id |-> id, date |-> txn.date, raw_merchant |-> txn.merchant, amount |-> txn.amount,
     transaction_type |-> txn.transaction_type, account_id |-> account_id,
     statement_period |-> period,
     is_income |-> (txn.transaction_type \in {"deposit", "credit"} /\ txn.amount < 0),
     needs_review |-> TRUE]

\* a loop body without the query for an existing row
StoredOrSkipped_NoQuery(rows, txn, account_id, period) ==
    Append(rows, NewTransaction(Len(rows) + 1, txn, account_id, period))

\* the body of 'for txn in result.transactions'
StoredOrSkipped(rows, txn, account_id, period) ==
    IF IsDuplicate(rows, txn, account_id) THEN rows
    ELSE Append(rows, NewTransaction(Len(rows) + 1, txn, account_id, period))

\* 'for txn in result.transactions', from the k-th transaction on; a query
\* sees the rows the loop added before it
RECURSIVE StoreFrom(_, _, _, _, _)
StoreFrom(rows, txns, k, account_id, period) ==
    IF k > Len(txns) THEN rows
    ELSE StoreFrom(StoredOrSkipped(rows, txns[k], account_id, period), txns, k + 1,
                   account_id, period)

\* the rows of transactions after the loop
TransactionsAfter(rows, accounts, res) ==
    StoreFrom(rows, res.transactions, 1, AccountFor(accounts, res).id, res.statement_period)

\* an error branch that forgets the message of the parser
UploadFailed_NoMessage(upload, res) == [upload EXCEPT !.status = "error"]

\* the upload record of a statement that did not parse
UploadFailed(upload, res) ==
    [upload EXCEPT !.status = "error", !.error_message = res.error_message]

\* the upload record of a statement that was stored
UploadProcessed(upload, res, account_id, transaction_count) ==
    [upload EXCEPT !.institution = Some(res.institution), !.account_id = Some(account_id),
                   !.statement_period = res.statement_period,
                   !.transaction_count = transaction_count, !.status = "processed",
                   !.processed_at = Some("utcnow")]

\* the response with status 400 of a statement that did not parse
ErrorResponse(res, upload_id) ==
    [status |-> 400, error |-> "Failed to parse statement", details |-> res.error_message,
     upload_id |-> upload_id]

\* the response of a statement that was stored
SuccessResponse(res, upload_id, account, transaction_count) ==
    [status |-> 200, success |-> TRUE, upload_id |-> upload_id,
     institution |-> res.institution, account |-> account,
     statement_period |-> res.statement_period,
     transactions_imported |-> transaction_count,
     total_in_statement |-> Len(res.transactions),
     duplicates_skipped |-> Len(res.transactions) - transaction_count]

InitApp ==
    /\ EngineIdle
    /\ NoHelperCall
    /\ kept = NoKept
    /\ AppEmpty

\* upload_statement returns 400 before it saves anything
RejectUpload ==
    /\ phase = "idle"
    /\ \E has_file \in BOOLEAN, filename \in UploadFilenames :
           /\ Rejection(has_file, filename) # None
           /\ response' = [status |-> 400, error |-> Rejection(has_file, filename)[1]]
    /\ UNCHANGED <<db_uploads, db_accounts, db_transactions>>
    /\ UNCHANGED <<engineVars, helperVars, callerVars>>

\* upload_statement saves the file, commits the upload record and calls
\* parser_factory.parse(filepath)
SaveUpload ==
    /\ phase = "idle"
    /\ Len(db_uploads) < MaxUploads
    /\ \E filename \in UploadFilenames : Rejection(TRUE, filename) = None
    /\ phase' = "called"
    /\ \E d \in UploadDocs : doc' = d
    /\ db_uploads' = Append(db_uploads, NewUpload(Len(db_uploads) + 1))
    /\ response' = NoResponse
    /\ UNCHANGED <<parser, result, now, db_accounts, db_transactions>>
    /\ UNCHANGED <<helperVars, callerVars>>

\* upload_statement after the parse returned: the error branch, or the
\* account, the transactions, the upload record, the commit and the response
StoreUpload ==
    /\ phase = "done"
    /\ db_uploads # <<>>
    /\ db_uploads[Len(db_uploads)].status = "pending"
    /\ IF ~result.success
       THEN /\ db_uploads' = [db_uploads EXCEPT ![Len(db_uploads)] = UploadFailed(@, result)]
            /\ response' = ErrorResponse(result, Len(db_uploads))
            /\ UNCHANGED <<db_accounts, db_transactions>>
       ELSE /\ db_accounts' = AccountsAfter(db_accounts, result)
            /\ db_transactions' = TransactionsAfter(db_transactions, db_accounts, result)
            /\ db_uploads' = [db_uploads EXCEPT ![Len(db_uploads)] =
                    UploadProcessed(@, result, AccountFor(db_accounts, result).id,
                                    Len(db_transactions') - Len(db_transactions))]
            /\ response' = SuccessResponse(result, Len(db_uploads),
                                           AccountFor(db_accounts, result),
                                           Len(db_transactions') - Len(db_transactions))
    /\ phase' = "idle"
    /\ doc' = NoDoc
    /\ parser' = "none"
    /\ result' = NoResult
    /\ UNCHANGED now
    /\ UNCHANGED <<helperVars, callerVars>>

NextApp ==
    \/ RejectUpload
    \/ SaveUpload
    \/ Parse
    \/ StoreUpload

SpecApp == InitApp /\ [][NextApp]_vars

\* ------------------------------------------------------------------------
\* upload_statement when a statement of its try block raises.  The parse
\* catches its own exceptions; the statements that follow it run queries on
\* the database, and a query that fails raises.  An exception is caught by
\* 'except Exception', which sets the upload record to 'error' and commits
\* the session as it is.  Exceptions raised inside flush() or commit() leave
\* the session to the library and are not part of the model.
\* ------------------------------------------------------------------------
\* str(e) of the exception of a query that failed
StoreError == "database is locked"

\* where the try block raises before the commit of the rows, after a parse
\* that succeeded: nowhere, at the query for the account, or at the query for
\* an existing row of the k-th transaction
RaisePoints(res) ==
    {[at |-> a, k |-> 0] : a \in {"nowhere", "account"}}
        \cup {[at |-> "transaction", k |-> k] : k \in DOMAIN res.transactions}

\* 'upload.status = 'error'; upload.error_message = str(e)'
UploadRaised(upload, message) ==
    [upload EXCEPT !.status = "error", !.error_message = Some(message)]

\* jsonify({'error': str(e), 'upload_id': upload.id}), 500
RaisedResponse(message, upload_id) ==
    [status |-> 500, error |-> message, upload_id |-> upload_id]

\* the rows of transactions the session holds when the k-th pass of the loop
\* raises at its query: the passes before it have run
StoredBefore(rows, accounts, res, k) ==
    StoreFrom(rows, SubSeq(res.transactions, 1, k - 1), 1, AccountFor(accounts, res).id,
              res.statement_period)

\* upload_statement after the parse returned, up to the commit of the rows:
\* the error branch, or the account, the transactions, the upload record and
\* the commit, or the except branch with what the session holds
StoreOrRaise ==
    /\ phase = "done"
    /\ db_uploads # <<>>
    /\ db_uploads[Len(db_uploads)].status = "pending"
    /\ \/ /\ ~result.success
          /\ db_uploads' = [db_uploads EXCEPT ![Len(db_uploads)] = UploadFailed(@, result)]
          /\ response' = ErrorResponse(result, Len(db_uploads))
          /\ phase' = "idle"
          /\ UNCHANGED <<db_accounts, db_transactions>>
       \/ /\ result.success
          /\ \E raised \in RaisePoints(result) :
                CASE raised.at = "account" ->
                        /\ db_uploads' = [db_uploads EXCEPT ![Len(db_uploads)] =
                                UploadRaised(@, StoreError)]
                        /\ response' = RaisedResponse(StoreError, Len(db_uploads))
                        /\ phase' = "idle"
                        /\ UNCHANGED <<db_accounts, db_transactions>>
                  [] raised.at = "transaction" ->
                        /\ db_accounts' = AccountsAfter(db_accounts, result)
                        /\ db_transactions' =
                               StoredBefore(db_transactions, db_accounts, result, raised.k)
                        /\ db_uploads' = [db_uploads EXCEPT ![Len(db_uploads)] =
                                UploadRaised(@, StoreError)]
                        /\ response' = RaisedResponse(StoreError, Len(db_uploads))
                        /\ phase' = "idle"
                  [] OTHER ->
                        /\ db_accounts' = AccountsAfter(db_accounts, result)
                        /\ db_transactions' =
                               TransactionsAfter(db_transactions, db_accounts, result)
                        /\ db_uploads' = [db_uploads EXCEPT ![Len(db_uploads)] =
                                UploadProcessed(@, result, AccountFor(db_accounts, result).id,
                                                Len(db_transactions') - Len(db_transactions))]
                        /\ response' = response
                        /\ phase' = "stored"
    /\ IF phase' = "idle" THEN doc' = NoDoc /\ parser' = "none" /\ result' = NoResult
       ELSE UNCHANGED <<doc, parser, result>>
    /\ UNCHANGED now
    /\ UNCHANGED <<helperVars, callerVars>>

\* upload_statement after the commit: the response, or the except branch
\* when reading the rows again for the response raises
Respond ==
    /\ phase = "stored"
    /\ \E raises \in BOOLEAN :
          IF raises
          THEN /\ db_uploads' = [db_uploads EXCEPT ![Len(db_uploads)] =
                       UploadRaised(@, StoreError)]
               /\ response' = RaisedResponse(StoreError, Len(db_uploads))
          ELSE /\ response' = SuccessResponse(result, Len(db_uploads),
                                              AccountFor(db_accounts, result),
                                              db_uploads[Len(db_uploads)].transaction_count)
               /\ UNCHANGED db_uploads
    /\ phase' = "idle"
    /\ doc' = NoDoc
    /\ parser' = "none"
    /\ result' = NoResult
    /\ UNCHANGED <<now, db_accounts, db_transactions>>
    /\ UNCHANGED <<helperVars, callerVars>>

NextRaise ==
    \/ RejectUpload
    \/ SaveUpload
    \/ Parse
    \/ StoreOrRaise
    \/ Respond

SpecRaise == InitApp /\ [][NextRaise]_vars

\* ------------------------------------------------------------------------
\* Properties
\* ------------------------------------------------------------------------
TypeOK ==
    /\ phase \in {"idle", "called", "done", "stored"}
    /\ parser \in {"none", "Chase", "Amex", "Truist", "Generic"}
    /\ result.success \in BOOLEAN

\* the text get_parser looked at in the call that has returned
Detected == DetectionText(doc)

HasKeyword(text, kw) == Contains(ToLower(text), kw)

\* the brand keywords of the three institutions
HasChaseBrand(text) == HasKeyword(text, KwChase)

HasAmexBrand(text) == HasKeyword(text, KwAmericanExpress) \/ HasKeyword(text, KwAmex)

HasTruistBrand(text) ==
    HasKeyword(text, KwTruist) \/ HasKeyword(text, KwBbt) \/ HasKeyword(text, KwSuntrust)

\* C1: get_parser returns the first parser, in the order Chase, Amex,
\* Truist, Generic, whose can_parse accepts the detection text; it returns a
\* parser for every text, the empty text included, and a text that several
\* institutions accept goes to the earliest of them.
C1_FirstMatchingParser ==
    phase = "done" =>
        LET order == <<"Chase", "Amex", "Truist", "Generic">>
            k == CHOOSE i \in DOMAIN order : order[i] = parser
        IN  /\ parser \in {order[i] : i \in DOMAIN order}
            /\ CanParse(parser, Detected)
            /\ \A i \in 1..(k - 1) : ~CanParse(order[i], Detected)
            /\ (\A i \in 1..3 : ~CanParse(order[i], Detected)) => parser = "Generic"

\* a text that both Chase and Amex accept went to Chase
C1_Witness ==
    /\ phase = "done"
    /\ ChaseCanParse(Detected)
    /\ AmexCanParse(Detected)
    /\ parser = "Chase"

\* C2 as claimed: a text with the brand keyword of an institution, and with
\* no brand keyword of an earlier institution, gets that institution's parser.
C2_Original ==
    phase = "done" =>
        /\ HasChaseBrand(Detected) => parser = "Chase"
        /\ (HasAmexBrand(Detected) /\ ~HasChaseBrand(Detected)) => parser = "Amex"
        /\ (HasTruistBrand(Detected) /\ ~HasChaseBrand(Detected) /\ ~HasAmexBrand(Detected))
              => parser = "Truist"

\* C2 as amended: 'chase' selects the Chase parser only together with one of
\* 'jpmorgan', 'jpmcb', 'credit card'; an Amex keyword selects the Amex parser
\* when Chase is not selected, a Truist keyword the Truist parser when neither
\* Chase nor Amex is; none of these texts gets the Generic parser.
C2_BrandSelectsParser ==
    phase = "done" =>
        LET chase == /\ HasChaseBrand(Detected)
                     /\ \/ HasKeyword(Detected, KwJpmorgan)
                        \/ HasKeyword(Detected, KwJpmcb)
                        \/ HasKeyword(Detected, KwCreditCard)
        IN  /\ chase => parser = "Chase"
            /\ (HasAmexBrand(Detected) /\ ~chase) => parser = "Amex"
            /\ (HasTruistBrand(Detected) /\ ~chase /\ ~HasAmexBrand(Detected))
                  => parser = "Truist"

\* a text with 'chase' but without its second keyword, and with an Amex
\* keyword, went to the Amex parser
C2_Witness ==
    /\ phase = "done"
    /\ HasChaseBrand(Detected)
    /\ ~HasKeyword(Detected, KwJpmorgan)
    /\ HasAmexBrand(Detected)
    /\ parser = "Amex"

\* C3: a readable document whose detection text has no brand keyword gets the
\* Generic parser, and the result of the parse has success = true.
C3_NoBrandGeneric ==
    (/\ phase = "done"
     /\ Readable(doc)
     /\ ~HasChaseBrand(Detected)
     /\ ~HasAmexBrand(Detected)
     /\ ~HasTruistBrand(Detected))
        => (parser = "Generic" /\ result.success = TRUE)

\* a document with transaction lines and no brand keyword was parsed by the
\* Generic parser, which found transactions
C3_Witness ==
    /\ phase = "done"
    /\ Readable(doc)
    /\ Detected # <<>>
    /\ ~HasChaseBrand(Detected)
    /\ ~HasAmexBrand(Detected)
    /\ ~HasTruistBrand(Detected)
    /\ parser = "Generic"
    /\ result.success
    /\ result.transactions # <<>>

\* C4: a result with success = false has no transactions, and error_message
\* is set exactly when success = false.
C4_FailureShape ==
    phase = "done" =>
        /\ ~result.success => result.transactions = <<>>
        /\ (result.error_message # None) <=> ~result.success

\* a parse failed with an exception whose message is the empty string
C4_Witness ==
    /\ phase = "done"
    /\ ~result.success
    /\ result.error_message = Some("")
    /\ result.transactions = <<>>

\* C5: the parse of a document that cannot be opened or read returns
\* success = false with error_message set and no transactions, also when
\* get_parser swallowed the failure; and only such a document gives
\* success = false.
C5_UnreadableFails ==
    phase = "done" =>
        /\ ~Readable(doc) =>
              /\ result.success = FALSE
              /\ result.error_message # None
              /\ result.transactions = <<>>
        /\ result.success = FALSE => ~Readable(doc)

\* the open failed: get_parser fell back to the Generic parser on the empty
\* text, and the parse reported the failure
C5_Witness ==
    /\ phase = "done"
    /\ ~doc.opens
    /\ doc.pages # <<>>
    /\ parser = "Generic"
    /\ result.success = FALSE
    /\ result.error_message = Some(doc.errmsg)

\* ------------------------------------------------------------------------
\* Properties of the transactions and the metadata of a result
\* ------------------------------------------------------------------------
\* the text the parse of the call read, and the default year it inferred
ParsedText == FullText(doc).text

ParsedYear == InferYear(ParsedText, now)

TransactionTypes == {"purchase", "payment", "refund", "deposit", "withdrawal", "credit"}

\* C6: every emitted transaction has a type of the vocabulary, an amount
\* >= 0 when the type is purchase or withdrawal, and an amount <= 0 when the
\* type is payment, refund, deposit or credit.
C6_SignAgreesWithType ==
    phase = "done" =>
        \A j \in DOMAIN result.transactions :
            LET t == result.transactions[j]
            IN  /\ t.transaction_type \in TransactionTypes
                /\ t.transaction_type \in {"purchase", "withdrawal"} => t.amount >= 0
                /\ t.transaction_type \in {"payment", "refund", "deposit", "credit"}
                      => t.amount <= 0

\* a line with a positive amount was emitted as a payment with the amount
\* made negative, next to a purchase with a positive amount
C6_Witness ==
    /\ phase = "done"
    /\ \E j \in DOMAIN result.transactions :
           /\ result.transactions[j].transaction_type = "payment"
           /\ result.transactions[j].amount < 0
           /\ \A i \in DOMAIN result.transactions[j].raw_text :
                  result.transactions[j].raw_text[i] # "-"
    /\ \E j \in DOMAIN result.transactions :
           /\ result.transactions[j].transaction_type = "purchase"
           /\ result.transactions[j].amount > 0

\* C7: every emitted transaction has a trimmed, non-empty merchant of at
\* least MinMerchantLen characters, whichever parser emitted it.
C7_MerchantMinLength ==
    phase = "done" =>
        \A j \in DOMAIN result.transactions :
            LET merchant == result.transactions[j].merchant
            IN  /\ merchant = Strip(merchant)
                /\ merchant # <<>>
                /\ Len(merchant) >= MinMerchantLen

\* C8: a statement_period that is not null has the form YYYY-MM: four
\* digits, a dash, and a two-digit month from 01 to 12.
C8_PeriodIsYearMonth ==
    (phase = "done" /\ result.statement_period # None) =>
        LET period == result.statement_period[1]
        IN  /\ Len(period) = 7
            /\ \A i \in {1, 2, 3, 4, 6, 7} : period[i] \in Digit
            /\ period[5] = "-"
            /\ IntOf(SubSeq(period, 6, 7)) \in 1..12

\* the account pattern of each institution parser
AccountPatternOf(p) ==
    CASE p = "Chase" -> ChaseAccountPattern
      [] p = "Amex" -> AmexAccountPattern
      [] p = "Truist" -> TruistAccountPattern

\* the account or card number of the text: all the digits from the place
\* where the account pattern captured its digits
AccountNumber ==
    LET account_match == Search(AccountPatternOf(parser), ParsedText)
        first == account_match[1].cap.sp[1][1]
    IN  SubSeq(ParsedText, first, first + RunLen(ParsedText, first, Digit, -1) - 1)

\* C9: an account_identifier that is not null has exactly four characters,
\* the last four digits of the account or card number of the text; the
\* Generic parser always gives null.
C9_LastFourDigits ==
    phase = "done" =>
        /\ parser = "Generic" => result.account_identifier = None
        /\ result.account_identifier # None =>
              /\ Len(result.account_identifier[1]) = 4
              /\ result.account_identifier[1] = LastN(AccountNumber, 4)

\* the denylist of each parser
SkipKeywordsOf(p) ==
    CASE p = "Chase" -> ChaseSkipKeywords
      [] p = "Amex" -> AmexSkipKeywords
      [] p = "Truist" -> TruistSkipKeywords
      [] p = "Generic" -> GenericSkipKeywords

\* the pattern whose matches are the candidate lines of the parse: for a
\* parser with two patterns, the first one when a line of it is emitted
UsedPattern(p) ==
    CASE p = "Chase" -> ChaseTransactionPattern
      [] p = "Amex" ->
           IF AmexTransactionsOf(ParsedText, FindIter(AmexPattern1, ParsedText), ParsedYear) # <<>>
           THEN AmexPattern1 ELSE AmexPattern2
      [] p = "Truist" ->
           IF TruistTransactionsOf(ParsedText, FindIter(TruistPattern1, ParsedText),
                                   ParsedYear, TruistPatterns[1].groups) # <<>>
           THEN TruistPattern1 ELSE TruistPattern2
      [] p = "Generic" -> GenericPattern

\* the description of a candidate line
Description(m) == Strip(Group(ParsedText, m, 2))

\* the description contains a keyword of the parser's denylist, whatever
\* the case of its letters
Denylisted(m) ==
    \E i \in DOMAIN SkipKeywordsOf(parser) :
        Contains(ToLower(Description(m)), SkipKeywordsOf(parser)[i])

\* the checks of the loop body other than the denylist: the length of the
\* description (not in the Chase parser), the date, and for the Truist
\* pattern with columns an amount in one of them
PassesOtherChecks(m) ==
    /\ parser # "Chase" => Len(Description(m)) >= MinMerchantLen
    /\ _parse_date(Group(ParsedText, m, 1), ParsedYear) # None
    /\ (parser = "Truist" /\ UsedPattern(parser) = TruistPattern1)
          => ~(GroupUnset(m, 3) /\ GroupUnset(m, 4))

\* the candidate line is in the transaction list
Emitted(m) ==
    \E j \in DOMAIN result.transactions :
        /\ result.transactions[j].raw_text = Group0(ParsedText, m)
        /\ result.transactions[j].merchant = Description(m)

AmountReturned == fn = "_parse_amount" /\ ret # NotReturned

\* what is left of the amount string after '$', ',' and whitespace are removed
Residual == RemoveChars(arg.s, {"$", ","} \cup Space)

IsNumeral(s) == ParseFloat(s) # <<>>

Inside(s) == SubSeq(s, 2, Len(s) - 1)

\* '(' an unsigned numeral ')'
IsParenthesized(s) ==
    /\ StartsWith(s, <<"(">>)
    /\ EndsWith(s, <<")">>)
    /\ IsNumeral(Inside(s))
    /\ Head(Inside(s)) \in Digit \cup {"."}

\* a plain amount, which may be negative, or a parenthesized one
IsAmount(s) == IsNumeral(s) \/ IsParenthesized(s)

AmountValue(s) ==
    IF IsParenthesized(s) THEN -(ParseFloat(Inside(s))[1]) ELSE ParseFloat(s)[1]

BeforeCR(s) == SubSeq(s, 1, Len(s) - 2)

HasCRSuffix(s) == EndsWith(s, <<"C", "R">>) /\ IsAmount(BeforeCR(s))

\* the value the amount has by the rules of the claim, in cents
ClaimedAmount(s) ==
    IF IsAmount(s) THEN AmountValue(s)
    ELSE IF HasCRSuffix(s) THEN -AmountValue(BeforeCR(s))
    ELSE 0

\* C11: _parse_amount returns the value of a plain amount, that value negated
\* for a parenthesized amount, the negation of the value before a trailing CR
\* for every amount with that suffix, a negative or a parenthesized one
\* included, and 0 when what is left of the text is not numeric.
C11_AmountNormalized == AmountReturned => ret[1] = ClaimedAmount(Residual)

\* ------------------------------------------------------------------------
\* Properties of _parse_date
\* ------------------------------------------------------------------------
DateReturned == fn = "_parse_date" /\ ret # NotReturned

\* the formats that parse the stripped date text
FittingFormats(s) == {i \in DOMAIN DateFormats : Strptime(Strip(s), DateFormats[i]) # <<>>}

FirstFitting(s) == CHOOSE i \in FittingFormats(s) : \A j \in FittingFormats(s) : i <= j

\* the date of the first format that parses, with the supplied year when the
\* format has none
DateByFirstFormat(s, year) ==
    LET fmt == DateFormats[FirstFitting(s)]
        parsed == Strptime(Strip(s), fmt)[1]
    IN  IF HasYear(fmt) \/ year = 0 THEN parsed ELSE [parsed EXCEPT !.y = year]

\* the patterns a parser looks for transaction lines with
PatternsOf(p) ==
    CASE p = "Chase" -> {ChaseTransactionPattern}
      [] p = "Amex" -> {AmexPattern1, AmexPattern2}
      [] p = "Truist" -> {TruistPattern1, TruistPattern2}
      [] p = "Generic" -> {GenericPattern}

\* the candidate lines of a pattern whose date text no format parses
UndatedAmong(lines) ==
    {Group0(ParsedText, lines[k]) : k \in
        {i \in DOMAIN lines : _parse_date(Group(ParsedText, lines[i], 1), ParsedYear) = None}}

\* the candidate lines of the parse whose date text no format parses
UndatedLines ==
    UNION {UndatedAmong(FindIter(pat, ParsedText)) : pat \in PatternsOf(parser)}

\* C12: _parse_date returns what the first format, in the order of the list,
\* that parses the stripped text gives: with the supplied year when that
\* format has no year, with the year of the text when it has one; it returns
\* None when no format parses; and a parser emits no transaction for a
\* candidate line whose date text gave None.
C12_FirstFormatInOrder ==
    /\ DateReturned =>
          IF FittingFormats(arg.s) = {} THEN ret[1] = None
          ELSE ret[1] = Some(DateByFirstFormat(arg.s, arg.year))
    /\ (phase = "done" /\ result.success) =>
          \A j \in DOMAIN result.transactions :
              result.transactions[j].raw_text \notin UndatedLines

\* _parse_date gave a date without year the supplied year, and the parse of the
\* document with that date text emitted its line with the year of the parse
C12_Witness ==
    /\ DateReturned
    /\ arg.year = 2023
    /\ ret[1] = Some([y |-> 2023, m |-> 3, d |-> 15])
    /\ ~HasYear(DateFormats[FirstFitting(arg.s)])
    /\ phase = "done"
    /\ Len(result.transactions) = 1
    /\ result.transactions[1].date = [y |-> ParsedYear, m |-> 3, d |-> 15]

\* ------------------------------------------------------------------------
\* Properties of the parse of a document without transaction lines
\* ------------------------------------------------------------------------
\* no pattern of the parser matches anywhere in the text of the document
NoCandidateLine == \A pat \in PatternsOf(parser) : Matches(pat, ParsedText) = {}

\* C13: the parse of a readable document in which no transaction line is
\* recognized returns success = true, an empty transaction list and no error
\* message, whichever parser does it.
C13_EmptyIsSuccess ==
    (phase = "done" /\ Readable(doc) /\ NoCandidateLine) =>
        /\ result.success = TRUE
        /\ result.transactions = <<>>
        /\ result.error_message = None

\* the Chase parser parsed a document with text (a header whose period end
\* strptime does not read) and without transaction lines
C13_Witness ==
    /\ phase = "done"
    /\ Readable(doc)
    /\ NoCandidateLine
    /\ parser = "Chase"
    /\ ParsedText # <<>>
    /\ result.statement_period = Some(<<"2", "0", "2", "4">>)
    /\ result.success = TRUE
    /\ result.transactions = <<>>

\* ------------------------------------------------------------------------
\* Properties of repeated parses
\* ------------------------------------------------------------------------
\* the call that returned parsed the document the caller kept a result of
ParsedAgain == phase = "done" /\ kept # NoKept /\ kept.doc = doc

HasYearToken(text) == Search(YearPattern, text) # <<>>

\* C14 as stated: the parse of a document that was parsed before returns a
\* ParseResult equal to the one of the earlier parse, whatever happened in
\* between.
C14_Original == ParsedAgain => result = kept.result

\* C14: the parse of a document that was parsed before returns a ParseResult
\* equal to the one of the earlier parse (success, metadata, transactions in
\* order and their fields) when the calendar year is the same at both calls
\* or the text of the document has a 20xx token.
C14_SameResultSameYear ==
    (ParsedAgain /\ (kept.now = now \/ HasYearToken(ParsedText))) => result = kept.result

\* a document with transaction lines and a 20xx token was parsed in two
\* calendar years, with the same result
C14_Witness ==
    /\ ParsedAgain
    /\ kept.now # now
    /\ HasYearToken(ParsedText)
    /\ result.transactions # <<>>
    /\ result = kept.result

\* ------------------------------------------------------------------------
\* Properties of the parse of the fixture statement
\* ------------------------------------------------------------------------
\* the statement is the two fixture lines, alone or after a header page
\* without transaction lines
FixtureDocs ==
    {ReadableDoc(<<PageFixture>>)}
    \cup {ReadableDoc(<<h, PageFixture>>) : h \in {PageChase, PageAmex, PageTruist}}

InstitutionParsers == {"Chase", "Amex", "Truist"}

FixtureParsed == phase = "done" /\ doc \in FixtureDocs /\ parser \in InstitutionParsers

\* the two transactions of the fixture lines, with the given type
FixtureTransactions(type) ==
    << ExtractedTransaction([y |-> ParsedYear, m |-> 3, d |-> 1],
                            <<"S", "T", "A", "R", "B", "U", "C", "K", "S", " ", "#", "1", "2", "3">>,
                            542, type, FixtureLine1),
       ExtractedTransaction([y |-> ParsedYear, m |-> 3, d |-> 2],
                            <<"A", "M", "A", "Z", "O", "N", ".", "C", "O", "M", " ", "*", "A", "B", "C", "1", "2", "3">>,
                            4210, type, FixtureLine2) >>

\* C15 as stated: each of the Chase, Amex and Truist parsers gives for the
\* fixture lines exactly two transactions, in order, both of type purchase,
\* with amounts 5.42 and 42.10, dates March 1 and 2 of the inferred year and
\* raw_text the whole line.
C15_Original == FixtureParsed => result.transactions = FixtureTransactions("purchase")

\* C15: each of the Chase, Amex and Truist parsers gives for the fixture
\* lines exactly two transactions, in order, with amounts 5.42 and 42.10,
\* dates March 1 and 2 of the inferred year and raw_text the whole line; the
\* type of both is purchase from the Chase and Amex parsers and withdrawal
\* from the Truist parser.
C15_FixtureTransactions ==
    FixtureParsed =>
        result.transactions =
            FixtureTransactions(IF parser = "Truist" THEN "withdrawal" ELSE "purchase")

\* the Amex parser parsed the fixture lines after a header with a 20xx token
C15_Witness ==
    /\ FixtureParsed
    /\ parser = "Amex"
    /\ ParsedYear = 2023
    /\ Len(result.transactions) = 2
    /\ result.transactions[2].amount = 4210
    /\ result.transactions[2].date.y = 2023

\* ------------------------------------------------------------------------
\* Properties of upload_statement
\* ------------------------------------------------------------------------
\* the step of upload_statement that follows the parse
StoreStep == phase = "done" /\ phase' = "idle" /\ db_uploads # <<>>

LastUpload == Len(db_uploads)

\* C16: when the parse returned success = false, upload_statement takes the
\* upload record from 'pending' to 'error' with the error message of the
\* parser, answers with an error, and creates or changes no account and no
\* transaction row; an upload record in 'error' is never changed again.
C16_FailedUploadIsTerminal ==
    [][ /\ (StoreStep /\ ~result.success) =>
              /\ db_uploads[LastUpload].status = "pending"
              /\ db_uploads' = [db_uploads EXCEPT ![LastUpload] =
                      [@ EXCEPT !.status = "error", !.error_message = result.error_message]]
              /\ response'.status = 400
              /\ response'.error = "Failed to parse statement"
              /\ response'.details = result.error_message
              /\ response'.upload_id = LastUpload
              /\ db_accounts' = db_accounts
              /\ db_transactions' = db_transactions
        /\ \A i \in DOMAIN db_uploads :
              db_uploads[i].status = "error" => db_uploads'[i] = db_uploads[i]
      ]_vars

\* an upload failed after another one had stored an account and transactions,
\* and a later upload was processed
C16_Witness ==
    /\ Len(db_uploads) = 3
    /\ db_uploads[1].status = "processed"
    /\ db_uploads[2].status = "error"
    /\ db_uploads[2].error_message = Some("No /Root object")
    /\ db_uploads[3].status = "processed"
    /\ db_transactions # <<>>

\* the key of the query for an existing row
SameKey(a, b) ==
    /\ a.date = b.date
    /\ a.raw_merchant = b.raw_merchant
    /\ a.amount = b.amount
    /\ a.account_id = b.account_id

NoDuplicateRows ==
    \A i, j \in DOMAIN db_transactions :
        i # j => ~SameKey(db_transactions[i], db_transactions[j])

\* every transaction of the statement that was parsed has a row already
AllAlreadyStored ==
    /\ AccountIndex(db_accounts, result) # 0
    /\ \A k \in DOMAIN result.transactions :
           \E i \in DOMAIN db_transactions :
               /\ db_transactions[i].date = result.transactions[k].date
               /\ db_transactions[i].raw_merchant = result.transactions[k].merchant
               /\ db_transactions[i].amount = result.transactions[k].amount
               /\ db_transactions[i].account_id = db_accounts[AccountIndex(db_accounts, result)].id

\* C17: after any sequence of uploads no two transaction rows have the same
\* date, raw_merchant, amount and account_id; and the upload of a statement
\* whose transactions all have a row already adds no row and reports every
\* transaction of the statement as a skipped duplicate.
C17_NoDuplicateTransactions ==
    /\ []NoDuplicateRows
    /\ [][ (StoreStep /\ result.success /\ AllAlreadyStored) =>
              /\ db_transactions' = db_transactions
              /\ response'.status = 200
              /\ response'.transactions_imported = 0
              /\ response'.total_in_statement = Len(result.transactions)
              /\ response'.duplicates_skipped = Len(result.transactions)
          ]_vars

\* a statement with transactions was uploaded again: nothing was imported and
\* all its transactions were reported as duplicates
C17_Witness ==
    /\ response.status = 200
    /\ response.transactions_imported = 0
    /\ response.duplicates_skipped >= 2
    /\ Len(db_transactions) >= 2
    /\ NoDuplicateRows

\* ------------------------------------------------------------------------
\* Properties of the parsers with several patterns
\* ------------------------------------------------------------------------
\* what the loop over the matches of the i-th pattern of the parser emits
PatternOutput(p, i) ==
    IF p = "Amex"
    THEN AmexTransactionsOf(ParsedText, FindIter(AmexPatterns[i], ParsedText), ParsedYear)
    ELSE TruistTransactionsOf(ParsedText, FindIter(TruistPatterns[i].re, ParsedText),
                              ParsedYear, TruistPatterns[i].groups)

\* the patterns of the parser that emit at least one transaction
EmittingPatterns(p) == {i \in 1..2 : PatternOutput(p, i) # <<>>}

FirstEmitting(p) == CHOOSE i \in EmittingPatterns(p) : \A j \in EmittingPatterns(p) : i <= j

MultiPatternParsed == phase = "done" /\ parser \in {"Amex", "Truist"} /\ Readable(doc)

\* C18: the transactions of an Amex or Truist parse are those of exactly one
\* pattern, the first in the order of the list that emits at least one
\* transaction; a later pattern adds nothing to them, and the list is empty
\* only when no pattern emits anything.
C18_FirstEmittingPattern ==
    MultiPatternParsed =>
        IF EmittingPatterns(parser) = {} THEN result.transactions = <<>>
        ELSE result.transactions = PatternOutput(parser, FirstEmitting(parser))

\* both patterns emit for the text, and the result is what the first one
\* emits, without a transaction that only the second one emits
C18_Witness ==
    /\ MultiPatternParsed
    /\ parser = "Amex"
    /\ EmittingPatterns(parser) = {1, 2}
    /\ result.transactions = PatternOutput(parser, 1)
    /\ \E k \in DOMAIN PatternOutput(parser, 2) :
           \A j \in DOMAIN result.transactions :
               result.transactions[j].raw_text # PatternOutput(parser, 2)[k].raw_text

\* ------------------------------------------------------------------------
\* Properties of the pages detection and extraction read
\* ------------------------------------------------------------------------
\* the document cut after its second page
FirstTwoPages(d) ==
    [d EXCEPT !.pages = SubSeq(d.pages, 1, IF Len(d.pages) < 2 THEN Len(d.pages) ELSE 2)]

\* the candidate lines among lines that begin after the text of the first two
\* pages
LateAmong(lines) ==
    {lines[k] : k \in {i \in DOMAIN lines :
                           lines[i].s > Len(FullText(FirstTwoPages(doc)).text)}}

LateLines == LateAmong(FindIter(UsedPattern(parser), ParsedText))

\* C19: get_parser selects the parser it would select for the first two
\* pages alone, whatever the later pages hold; the parse reads every page: a
\* candidate line of a later page that passes the checks of the loop is
\* emitted like one of the first two pages.
C19_DetectTwoExtractAll ==
    (phase = "done" /\ Readable(doc)) =>
        /\ parser = get_parser(FirstTwoPages(doc))
        /\ \A m \in LateLines :
               (~Denylisted(m) /\ PassesOtherChecks(m)) => Emitted(m)

\* the Chase keyword is on the third page only: the generic parser was
\* selected, and it emitted a line of the third page
C19_Witness ==
    /\ phase = "done"
    /\ Readable(doc)
    /\ Len(doc.pages) = 3
    /\ HasChaseBrand(doc.pages[3])
    /\ ~HasChaseBrand(Detected)
    /\ parser = "Generic"
    /\ \E m \in LateLines : Emitted(m)

\* ------------------------------------------------------------------------
\* Properties of the default year
\* ------------------------------------------------------------------------
\* the positions of the text where '2', '0' and two digits follow each other
YearTokenStarts(text) ==
    {p \in 1..(Len(text) - 3) :
        /\ text[p] = "2"
        /\ text[p + 1] = "0"
        /\ text[p + 2] \in Digit
        /\ text[p + 3] \in Digit}

FirstYearTokenStart(text) ==
    CHOOSE p \in YearTokenStarts(text) : \A q \in YearTokenStarts(text) : p <= q

\* the first 20xx of the text, or the calendar year when it has none
DefaultYear(text, calendar_year) ==
    IF YearTokenStarts(text) = {} THEN calendar_year
    ELSE IntOf(SubSeq(text, FirstYearTokenStart(text), FirstYearTokenStart(text) + 3))

\* the positions of the separators of a date text
Separators(date_str) == {i \in DOMAIN date_str : date_str[i] \in {"/", "-"}}

\* the date text has a third part, the year
HasOwnYear(date_str) == Cardinality(Separators(date_str)) = 2

YearPart(date_str) ==
    SubSeq(date_str, 1 + CHOOSE i \in Separators(date_str) : \A j \in Separators(date_str) : j <= i,
           Len(date_str))

\* the year a date text with a year part stands for: four digits as they
\* are, two digits in 1969..2068
OwnYear(date_str) ==
    IF Len(YearPart(date_str)) = 4 THEN IntOf(YearPart(date_str))
    ELSE IF IntOf(YearPart(date_str)) <= 68 THEN 2000 + IntOf(YearPart(date_str))
    ELSE 1900 + IntOf(YearPart(date_str))

\* the emitted transaction of the candidate line m
TransactionOf(m) ==
    CHOOSE t \in {result.transactions[j] : j \in DOMAIN result.transactions} :
        t.raw_text = Group0(ParsedText, m)

\* the year the transaction of the candidate line m has to carry
ExpectedYear(m) ==
    IF HasOwnYear(Group(ParsedText, m, 1)) THEN OwnYear(Group(ParsedText, m, 1))
    ELSE DefaultYear(ParsedText, now)

EmittedLines(lines) == {lines[k] : k \in {i \in DOMAIN lines : Emitted(lines[i])}}

\* C20: the default year of a parse is the first 20xx in the full text, or
\* the calendar year when the text has none; an emitted transaction whose
\* date text has no year carries the default year, one whose date text has a
\* year carries that year.
C20_DefaultYear ==
    (phase = "done" /\ result.success) =>
        /\ ParsedYear = DefaultYear(ParsedText, now)
        /\ \A m \in EmittedLines(FindIter(UsedPattern(parser), ParsedText)) :
               TransactionOf(m).date.y = ExpectedYear(m)

\* a line dated 03/15/24 after a header with 2023 was emitted with the year
\* 2024, the default year being 2023
C20_Witness ==
    /\ phase = "done"
    /\ parser = "Amex"
    /\ ParsedYear = 2023
    /\ \E m \in EmittedLines(FindIter(UsedPattern(parser), ParsedText)) :
           /\ HasOwnYear(Group(ParsedText, m, 1))
           /\ TransactionOf(m).date.y = 2024

\* the accounts with the institution and the last_four of the statement
\* that was parsed
MatchingAccounts ==
    {i \in DOMAIN db_accounts :
        /\ db_accounts[i].institution = result.institution
        /\ db_accounts[i].last_four = result.account_identifier}

OneAccountPerPair ==
    \A i, j \in DOMAIN db_accounts :
        (/\ db_accounts[i].institution = db_accounts[j].institution
         /\ db_accounts[i].last_four = db_accounts[j].last_four) => i = j

\* C22: after any sequence of uploads there is at most one account row for
\* each pair of institution and last_four, a null last_four included; an
\* upload that is stored uses the account that matches and adds no account,
\* or adds one account with the pair of the statement when none matches.
C22_OneAccountPerPair ==
    /\ []OneAccountPerPair
    /\ [][ (StoreStep /\ result.success) =>
              IF MatchingAccounts # {}
              THEN /\ db_accounts' = db_accounts
                   /\ \A i \in MatchingAccounts :
                          db_uploads'[LastUpload].account_id = Some(db_accounts[i].id)
              ELSE /\ Len(db_accounts') = Len(db_accounts) + 1
                   /\ SubSeq(db_accounts', 1, Len(db_accounts)) = db_accounts
                   /\ db_accounts'[Len(db_accounts')].institution = result.institution
                   /\ db_accounts'[Len(db_accounts')].last_four = result.account_identifier
                   /\ db_uploads'[LastUpload].account_id =
                          Some(db_accounts'[Len(db_accounts')].id)
      ]_vars

\* the first and the third upload went to one account with a null last_four,
\* the second one to another account
C22_Witness ==
    /\ Len(db_uploads) = 3
    /\ \A i \in 1..3 : db_uploads[i].status = "processed"
    /\ db_uploads[1].account_id = db_uploads[3].account_id
    /\ db_uploads[2].account_id # db_uploads[1].account_id
    /\ db_accounts[db_uploads[1].account_id[1]].last_four = None
    /\ Len(db_accounts) = 2

\* ------------------------------------------------------------------------
\* Properties of upload_statement when its try block raises
\* ------------------------------------------------------------------------
\* the step that ends a call of upload_statement with its upload record in
\* 'error'
EndsInError ==
    /\ phase \in {"done", "stored"}
    /\ phase' = "idle"
    /\ db_uploads'[LastUpload].status = "error"

\* C21: when a call of upload_statement ends with its upload record in
\* 'error', through success = false or through an exception raised while the
\* result is stored, no account row and no transaction row that the call
\* added is in the database: the step that ends the call leaves the rows as
\* they were when the call began, and the call has committed no row before.
C21_NoPartialImport ==
    [][ EndsInError =>
            /\ db_accounts' = db_accounts
            /\ db_transactions' = db_transactions
            /\ phase = "stored" => db_uploads[LastUpload].transaction_count = 0
      ]_vars

\* a call of upload_statement returns
Returns == phase \in {"done", "stored"} /\ phase' = "idle"

\* the upload record of the call gets the status 'processed'
BecomesProcessed ==
    /\ phase = "done"
    /\ db_uploads[LastUpload].status = "pending"
    /\ db_uploads'[LastUpload].status = "processed"

\* C23: every upload record is created in 'pending'; when upload_statement
\* returns, the record of the call is 'processed' or 'error'; a record
\* leaves 'pending' once and is never changed after that; a record that
\* becomes 'processed' has processed_at set and its transaction_count is the
\* number of transaction rows the upload added; and in the response of a
\* stored upload transactions_imported + duplicates_skipped =
\* total_in_statement.
C23_UploadStatusOnce ==
    [][ /\ Len(db_uploads') >= Len(db_uploads)
        /\ \A i \in DOMAIN db_uploads' :
              i > Len(db_uploads) => db_uploads'[i].status = "pending"
        /\ \A i \in DOMAIN db_uploads :
              /\ db_uploads[i].status \in {"pending", "processed", "error"}
              /\ db_uploads[i].status # "pending" => db_uploads'[i] = db_uploads[i]
        /\ Returns => db_uploads'[LastUpload].status \in {"processed", "error"}
        /\ BecomesProcessed =>
              /\ db_uploads'[LastUpload].processed_at # None
              /\ db_uploads'[LastUpload].transaction_count =
                     Len(db_transactions') - Len(db_transactions)
        /\ (Returns /\ response'.status = 200) =>
              /\ response'.transactions_imported =
                     db_uploads'[LastUpload].transaction_count
              /\ response'.transactions_imported + response'.duplicates_skipped =
                     response'.total_in_statement
      ]_vars

====
